---------------------------- MODULE Spec2Model ----------------------------
(***************************************************************************)
(* Notification prioritization engine: the decision pipeline               *)
(* (app/engine.py) over the time-windowed in-memory store (app/store.py).  *)
(*                                                                         *)
(* Time is counted in seconds.  Optional values (None in the source) are   *)
(* sequences of length 0 or 1.  Text is a sequence of one-character        *)
(* strings, so that lower(), strip(), split() and join() are computed.     *)
(* The event fields source, priority_hint and metadata are never read by   *)
(* the engine or the store and are left out of the event record.  A        *)
(* datetime is its time in seconds and whether it is timezone-aware;       *)
(* utc_now() is aware, and ordering a naive with an aware datetime raises  *)
(* TypeError.                                                              *)
(***************************************************************************)
EXTENDS Integers, Sequences, FiniteSets

VARIABLES
    clock,                  \* utc_now(): the wall clock, in seconds
    rules,                  \* InMemoryStore._rules
    events_by_user,         \* InMemoryStore._events_by_user
    fingerprints_by_user,   \* InMemoryStore._fingerprints_by_user
    exact_seen,             \* InMemoryStore._exact_seen
    audit_by_user,          \* InMemoryStore._audit_by_user
    hist,                   \* the decide calls returned so far: event, time of the
                            \* call, response, and the store's rules at the return
                            \* (of an add_event called on its own: event and time)
    pre,                    \* the store as the decide call begun last found it
    ticked,                 \* the clock has advanced since the last call
    calls,                  \* per worker thread, the decide call it is running
    args,                   \* the arguments of a function called on its own
    result                  \* what that call returned, None before it returns

vars == <<clock, rules, events_by_user, fingerprints_by_user, exact_seen, audit_by_user,
          hist, pre, ticked, calls, args, result>>

(***************************************************************************)
(* Bounds of the model.                                                    *)
(***************************************************************************)
MaxCalls == 3

\* The decide calls made in a run in which calls overlap.
MaxConcurrentCalls == 2

(***************************************************************************)
(* Program constants.                                                      *)
(***************************************************************************)
DaySeconds == 86400
HourSeconds == 3600
EventRetentionSeconds == 172800
FingerprintRetentionSeconds == 21600
\* The near-duplicate threshold 0.82, in hundredths.
NearDuplicateThresholdPct == 82

None == <<>>
Some(x) == <<x>>
IsSome(o) == Len(o) = 1
Val(o) == o[1]

(***************************************************************************)
(* Text.                                                                   *)
(***************************************************************************)
\* Code points of the characters used.
Ord(c) ==
    CASE c = " " -> 32
      [] c = "A" -> 65
      [] c = "B" -> 66
      [] c = "a" -> 97
      [] c = "b" -> 98
      [] c = "c" -> 99
      [] c = "d" -> 100
      [] c = "e" -> 101
      [] c = "f" -> 102
      [] c = "|" -> 124

IsSpace(c) == c = " "

LowerChar(c) ==
    CASE c = "A" -> "a"
      [] c = "B" -> "b"
      [] OTHER -> c

\* str.lower()
Lower(s) == [i \in 1..Len(s) |-> LowerChar(s[i])]

RECURSIVE LStrip(_)
LStrip(s) == IF s # <<>> /\ IsSpace(Head(s)) THEN LStrip(Tail(s)) ELSE s

RECURSIVE RStrip(_)
RStrip(s) ==
    IF s # <<>> /\ IsSpace(s[Len(s)]) THEN RStrip(SubSeq(s, 1, Len(s) - 1)) ELSE s

\* str.strip()
Strip(s) == RStrip(LStrip(s))

\* str.split(): the maximal runs of non-whitespace characters, in order.
RECURSIVE SplitWs(_, _)
SplitWs(s, cur) ==
    IF s = <<>> THEN (IF cur = <<>> THEN <<>> ELSE <<cur>>)
    ELSE IF IsSpace(Head(s))
         THEN (IF cur = <<>> THEN <<>> ELSE <<cur>>) \o SplitWs(Tail(s), <<>>)
         ELSE SplitWs(Tail(s), Append(cur, Head(s)))

\* str.split(sep): the pieces between separators, empty pieces kept.
RECURSIVE SplitSep(_, _, _)
SplitSep(s, sep, cur) ==
    IF s = <<>> THEN <<cur>>
    ELSE IF Head(s) = sep
         THEN <<cur>> \o SplitSep(Tail(s), sep, <<>>)
         ELSE SplitSep(Tail(s), sep, Append(cur, Head(s)))

\* Lexicographic order of strings by code point.
RECURSIVE StrLess(_, _)
StrLess(s, t) ==
    IF t = <<>> THEN FALSE
    ELSE IF s = <<>> THEN TRUE
    ELSE IF Ord(Head(s)) # Ord(Head(t)) THEN Ord(Head(s)) < Ord(Head(t))
    ELSE StrLess(Tail(s), Tail(t))

\* sorted(set): the elements of a set of strings in increasing order.
RECURSIVE Sorted(_)
Sorted(S) ==
    IF S = {} THEN <<>>
    ELSE LET m == CHOOSE x \in S : \A y \in S \ {x} : StrLess(x, y)
         IN  <<m>> \o Sorted(S \ {m})

\* sep.join(seq)
RECURSIVE Join(_, _)
Join(seq, sep) ==
    IF seq = <<>> THEN <<>>
    ELSE IF Len(seq) = 1 THEN seq[1]
    ELSE seq[1] \o <<sep>> \o Join(Tail(seq), sep)

Range(seq) == {seq[i] : i \in 1..Len(seq)}

\* engine.normalized_text; text is an optional string.
normalized_text(text) ==
    IF ~IsSome(text) \/ Val(text) = <<>> THEN <<>>
    ELSE Strip(Lower(Val(text)))

\* engine.token_fingerprint
token_fingerprint(text) ==
    IF text = <<>> THEN <<>>
    ELSE Join(Sorted(Range(SplitWs(normalized_text(Some(text)), <<>>))), "|")

\* engine.jaccard_similarity with the test of line 36 moved before the test of
\* line 32: two empty fingerprints would count as equal.
jaccard_similarity_empty_equal(fp1, fp2) ==
    IF fp1 = <<>> /\ fp2 = <<>> THEN <<1, 1>>
    ELSE IF fp1 = <<>> \/ fp2 = <<>> THEN <<0, 1>>
    ELSE LET tokens1 == Range(SplitSep(fp1, "|", <<>>))
             tokens2 == Range(SplitSep(fp2, "|", <<>>))
         IN  <<Cardinality(tokens1 \cap tokens2), Cardinality(tokens1 \cup tokens2)>>

\* A similarity is the fraction <<numerator, denominator>>: 0.0 is <<0, 1>>
\* and 1.0 is <<1, 1>>.
\* engine.jaccard_similarity.  A split never yields an empty list, so the
\* two tests on empty token sets never fire.
jaccard_similarity(fp1, fp2) ==
    IF fp1 = <<>> \/ fp2 = <<>> THEN <<0, 1>>
    ELSE LET tokens1 == Range(SplitSep(fp1, "|", <<>>))
             tokens2 == Range(SplitSep(fp2, "|", <<>>))
             intersection == Cardinality(tokens1 \cap tokens2)
             union == Cardinality(tokens1 \cup tokens2)
         IN  IF tokens1 = {} /\ tokens2 = {} THEN <<1, 1>>
             ELSE IF tokens1 = {} \/ tokens2 = {} THEN <<0, 1>>
             ELSE IF union > 0 THEN <<intersection, union>> ELSE <<0, 1>>

\* similarity >= pct / 100, exactly.
AtLeastPct(similarity, pct) == 100 * similarity[1] >= pct * similarity[2]

\* _trim_events that goes on dropping from the front until no entry older
\* than two days is left in the queue.
RECURSIVE trim_events_until_none_stale(_, _)
trim_events_until_none_stale(q, now) ==
    IF \E i \in 1..Len(q) : q[i].timestamp < now - EventRetentionSeconds
    THEN trim_events_until_none_stale(Tail(q), now)
    ELSE q

(***************************************************************************)
(* The store (app/store.py).  Each operator on a queue takes the queue of  *)
(* one user and the reading of utc_now() and gives the new queue or the    *)
(* answer.                                                                 *)
(***************************************************************************)
\* InMemoryStore._trim_events: entries are dropped from the front while the
\* front one is older than two days.
RECURSIVE trim_events(_, _)
trim_events(q, now) ==
    IF q # <<>> /\ Head(q).timestamp < now - EventRetentionSeconds
    THEN trim_events(Tail(q), now)
    ELSE q

\* InMemoryStore._trim_fingerprints: the same, with six hours.
RECURSIVE trim_fingerprints(_, _)
trim_fingerprints(q, now) ==
    IF q # <<>> /\ Head(q).seen_at < now - FingerprintRetentionSeconds
    THEN trim_fingerprints(Tail(q), now)
    ELSE q

\* add_event that appends the event twice.
add_event_twice(q, event, now) == trim_events(Append(Append(q, event), event), now)

\* InMemoryStore.add_event: the queue afterwards.
add_event(q, event, now) == trim_events(Append(q, event), now)

\* recent_events with the window's first instant left out (> for >=).
recent_events_strict(q, within_seconds, now) ==
    SelectSeq(trim_events(q, now), LAMBDA ev : ev.timestamp > now - within_seconds)

\* InMemoryStore.recent_events: the list returned (the queue is left trimmed).
recent_events(q, within_seconds, now) ==
    SelectSeq(trim_events(q, now), LAMBDA ev : ev.timestamp >= now - within_seconds)

\* mark_exact_seen that keeps the time already recorded for a key.
mark_exact_seen_once(seen, user_id, key, seen_at) ==
    IF <<user_id, key>> \in DOMAIN seen THEN seen
    ELSE [p \in DOMAIN seen \cup {<<user_id, key>>} |->
             IF p = <<user_id, key>> THEN seen_at ELSE seen[p]]

\* mark_exact_seen on a map keyed by the dedupe key alone: the key is marked
\* for every user that has an entry for it, and for user_id.
mark_exact_seen_any_user(seen, user_id, key, seen_at) ==
    [p \in DOMAIN seen \cup {<<user_id, key>>} |->
        IF p[2] = key THEN seen_at ELSE seen[p]]

\* InMemoryStore.mark_exact_seen: the map afterwards.
mark_exact_seen(seen, user_id, key, seen_at) ==
    [p \in DOMAIN seen \cup {<<user_id, key>>} |->
        IF p = <<user_id, key>> THEN seen_at ELSE seen[p]]

\* exact_seen_within with the window's first instant left out (> for >=).
exact_seen_within_strict(seen, user_id, key, within_seconds, now) ==
    IF <<user_id, key>> \notin DOMAIN seen THEN FALSE
    ELSE seen[<<user_id, key>>] > now - within_seconds

\* InMemoryStore.exact_seen_within
exact_seen_within(seen, user_id, key, within_seconds, now) ==
    IF <<user_id, key>> \notin DOMAIN seen THEN FALSE
    ELSE seen[<<user_id, key>>] >= now - within_seconds

\* store.RecentFingerprint
RecentFingerprint(fingerprint, event, seen_at) ==
    [fingerprint |-> fingerprint, event |-> event, seen_at |-> seen_at]

\* push_fingerprint that records no empty fingerprint.
push_fingerprint_skip_empty(q, fingerprint, event, seen_at, now) ==
    IF fingerprint = <<>> THEN trim_fingerprints(q, now)
    ELSE trim_fingerprints(Append(q, RecentFingerprint(fingerprint, event, seen_at)), now)

\* InMemoryStore.push_fingerprint: the queue afterwards.
push_fingerprint(q, fingerprint, event, seen_at, now) ==
    trim_fingerprints(Append(q, RecentFingerprint(fingerprint, event, seen_at)), now)

\* InMemoryStore.recent_fingerprints: the list returned.
recent_fingerprints(q, within_seconds, now) ==
    SelectSeq(trim_fingerprints(q, now), LAMBDA rf : rf.seen_at >= now - within_seconds)

(***************************************************************************)
(* The engine (app/engine.py).                                             *)
(***************************************************************************)
\* A DecisionResponse that never carries a scheduled_for time.
DecisionResponseUnscheduled(decision, reason, scheduled_for, policy_version, risk_score) ==
    [decision |-> decision, reason |-> reason, scheduled_for |-> None,
     policy_version |-> policy_version, risk_score |-> risk_score]

\* models.DecisionResponse; risk_score is counted in tenths (5 is 0.5).
DecisionResponse(decision, reason, scheduled_for, policy_version, risk_score) ==
    [decision |-> decision, reason |-> reason, scheduled_for |-> scheduled_for,
     policy_version |-> policy_version, risk_score |-> risk_score]

\* What a decide call leaves behind: the user's two queues, the dedupe map
\* and the response.
Outcome(events, fingerprints, seen, response) ==
    [events |-> events, fingerprints |-> fingerprints, exact_seen |-> seen,
     response |-> response]

\* Step 1 with "<=" for "<": an event expiring at this very instant is dropped.
is_expired_inclusive(event, now) == IsSome(event.expires_at) /\ Val(event.expires_at) <= now

\* Step 1: event.expires_at and event.expires_at < now
is_expired(event, now) == IsSome(event.expires_at) /\ Val(event.expires_at) < now

\* Step 2 with urgent types exempted from suppression.
is_suppressed_unless_urgent(event, r) ==
    /\ event.event_type \in r.suppress_event_types
    /\ event.event_type \notin r.urgent_event_types

\* Step 2: event.event_type in rules.suppress_event_types
is_suppressed(event, r) == event.event_type \in r.suppress_event_types

\* Step 3: "if event.dedupe_key": a key that is present and not the empty string.
has_dedupe_key(event) == IsSome(event.dedupe_key) /\ Val(event.dedupe_key) # ""

is_promotional(event, r) == event.event_type \in r.promotional_event_types

\* Step 5's test with the urgent bypass granted to promotional types only.
is_urgent_if_promotional(event, r) ==
    /\ event.event_type \in r.urgent_event_types
    /\ event.event_type \in r.promotional_event_types

\* Step 5: is_urgent = event.event_type in rules.urgent_event_types
is_urgent(event, r) == event.event_type \in r.urgent_event_types

\* Step 4: the number of promotional-type events among the recent ones.
promo_count(recent, r) ==
    Cardinality({i \in 1..Len(recent) : recent[i].event_type \in r.promotional_event_types})

\* Step 5: f"{event.title or ''} {event.message or ''}"
combined_text(event) ==
    (IF IsSome(event.title) THEN Val(event.title) ELSE <<>>) \o <<" ">>
    \o (IF IsSome(event.message) THEN Val(event.message) ELSE <<>>)

\* near_duplicate_found without the test on the event type.
near_duplicate_found_any_type(fp, recent_fps, event) ==
    \E i \in 1..Len(recent_fps) :
        AtLeastPct(jaccard_similarity(fp, recent_fps[i].fingerprint),
                   NearDuplicateThresholdPct)

\* Step 5: some recent fingerprint of the same event type is similar enough.
near_duplicate_found(fp, recent_fps, event) ==
    \E i \in 1..Len(recent_fps) :
        /\ recent_fps[i].event.event_type = event.event_type
        /\ AtLeastPct(jaccard_similarity(fp, recent_fps[i].fingerprint),
                      NearDuplicateThresholdPct)

\* Step 6: len(recent) >= rules.max_per_hour
over_hourly_limit(recent, r) == Len(recent) >= r.max_per_hour

\* channel_in_cooldown looking at the newest recent event only.
channel_in_cooldown_newest_only(recent, event) ==
    recent # <<>> /\ recent[Len(recent)].channel = event.channel

\* Step 7: some recent event used the same channel.
channel_in_cooldown(recent, event) ==
    \E i \in 1..Len(recent) : recent[i].channel = event.channel

\* decide_non_urgent with push_fingerprint moved behind steps 6 and 7: a
\* deferred event would leave no fingerprint.
decide_non_urgent_push_last(ev_q, fp_q, seen, r, now, event) ==
    LET fp == token_fingerprint(combined_text(event))
        fp_read == IF fp # <<>> THEN trim_fingerprints(fp_q, now) ELSE fp_q
        ev_read == trim_events(ev_q, now)
    IN  IF fp # <<>> /\ near_duplicate_found(
               fp, recent_fingerprints(fp_q, r.near_duplicate_window_seconds, now), event)
        THEN Outcome(ev_q, fp_read, seen,
                 DecisionResponse("Later", "near_duplicate", Some(now), r.policy_version, 5))
        ELSE IF over_hourly_limit(recent_events(ev_q, HourSeconds, now), r)
        THEN Outcome(ev_read, fp_read, seen,
                 DecisionResponse("Later", "hourly_rate_limit_exceeded", Some(now),
                                  r.policy_version, 3))
        ELSE IF channel_in_cooldown(recent_events(ev_read, r.cooldown_seconds, now), event)
        THEN Outcome(ev_read, fp_read, seen,
                 DecisionResponse("Later", "channel_cooldown_active", Some(now),
                                  r.policy_version, 2))
        ELSE Outcome(add_event(ev_read, event, now),
                     push_fingerprint(fp_read, fp, event, now, now), seen,
                 DecisionResponse("Now", "passed_all_checks", None, r.policy_version, 0))

\* Steps 5 to 8 of PrioritizationEngine.decide for a non-urgent event.
decide_non_urgent(ev_q, fp_q, seen, r, now, event) ==
    LET fp == token_fingerprint(combined_text(event))
        fp_read == IF fp # <<>> THEN trim_fingerprints(fp_q, now) ELSE fp_q
        fp_pushed == push_fingerprint(fp_read, fp, event, now, now)
        ev_read == trim_events(ev_q, now)
    IN  IF fp # <<>> /\ near_duplicate_found(
               fp, recent_fingerprints(fp_q, r.near_duplicate_window_seconds, now), event)
        THEN Outcome(ev_q, fp_read, seen,
                 DecisionResponse("Later", "near_duplicate", Some(now), r.policy_version, 5))
        ELSE IF over_hourly_limit(recent_events(ev_q, HourSeconds, now), r)
        THEN Outcome(ev_read, fp_pushed, seen,
                 DecisionResponse("Later", "hourly_rate_limit_exceeded", Some(now),
                                  r.policy_version, 3))
        ELSE IF channel_in_cooldown(recent_events(ev_read, r.cooldown_seconds, now), event)
        THEN Outcome(ev_read, fp_pushed, seen,
                 DecisionResponse("Later", "channel_cooldown_active", Some(now),
                                  r.policy_version, 2))
        ELSE Outcome(add_event(ev_read, event, now), fp_pushed, seen,
                 DecisionResponse("Now", "passed_all_checks", None, r.policy_version, 0))

\* Steps 4 to 8 of PrioritizationEngine.decide.
decide_after_dedupe(ev_q, fp_q, seen, r, now, event) ==
    LET ev_read == IF is_promotional(event, r) THEN trim_events(ev_q, now) ELSE ev_q
    IN  IF /\ is_promotional(event, r)
           /\ promo_count(recent_events(ev_q, DaySeconds, now), r) >= r.promotional_cap_per_day
        THEN Outcome(ev_read, fp_q, seen,
                 DecisionResponse("Never", "promotional_daily_cap_reached", None,
                                  r.policy_version, 0))
        ELSE IF ~is_urgent(event, r)
        THEN decide_non_urgent(ev_read, fp_q, seen, r, now, event)
        ELSE Outcome(add_event(ev_read, event, now), fp_q, seen,
                 DecisionResponse("Now", "passed_all_checks", None, r.policy_version, 0))

\* decide with mark_exact_seen called before the test of step 3 returns: a
\* rejected duplicate would refresh the last-seen time of its key.
decide_refreshing_duplicate(ev_q, fp_q, seen, r, now, event) ==
    IF is_expired(event, now)
    THEN Outcome(ev_q, fp_q, seen,
             DecisionResponse("Never", "event_expired", None, r.policy_version, 0))
    ELSE IF is_suppressed(event, r)
    THEN Outcome(ev_q, fp_q, seen,
             DecisionResponse("Never", "event_type_suppressed", None, r.policy_version, 0))
    ELSE IF has_dedupe_key(event)
    THEN IF exact_seen_within(seen, event.user_id, Val(event.dedupe_key),
                              r.cooldown_seconds, now)
         THEN Outcome(ev_q, fp_q,
                  mark_exact_seen(seen, event.user_id, Val(event.dedupe_key), now),
                  DecisionResponse("Never", "exact_duplicate", None, r.policy_version, 0))
         ELSE decide_after_dedupe(ev_q, fp_q,
                  mark_exact_seen(seen, event.user_id, Val(event.dedupe_key), now),
                  r, now, event)
    ELSE decide_after_dedupe(ev_q, fp_q, seen, r, now, event)

\* PrioritizationEngine.decide on the queues ev_q and fp_q of event.user_id,
\* the dedupe map seen and the rules r, every utc_now() of the call reading now.
decide(ev_q, fp_q, seen, r, now, event) ==
    IF is_expired(event, now)
    THEN Outcome(ev_q, fp_q, seen,
             DecisionResponse("Never", "event_expired", None, r.policy_version, 0))
    ELSE IF is_suppressed(event, r)
    THEN Outcome(ev_q, fp_q, seen,
             DecisionResponse("Never", "event_type_suppressed", None, r.policy_version, 0))
    ELSE IF has_dedupe_key(event)
    THEN IF exact_seen_within(seen, event.user_id, Val(event.dedupe_key),
                              r.cooldown_seconds, now)
         THEN Outcome(ev_q, fp_q, seen,
                  DecisionResponse("Never", "exact_duplicate", None, r.policy_version, 0))
         ELSE decide_after_dedupe(ev_q, fp_q,
                  mark_exact_seen(seen, event.user_id, Val(event.dedupe_key), now),
                  r, now, event)
    ELSE decide_after_dedupe(ev_q, fp_q, seen, r, now, event)

(***************************************************************************)
(* Rules (app/models.py, RuleConfig).  The three lists are only ever       *)
(* tested for membership and are sets here.                                *)
(***************************************************************************)
RuleConfig(policy_version, cooldown_seconds, max_per_hour, promotional_cap_per_day, near_duplicate_window_seconds, urgent, suppress, promotional) ==
    [policy_version |-> policy_version,
     cooldown_seconds |-> cooldown_seconds,
     max_per_hour |-> max_per_hour,
     promotional_cap_per_day |-> promotional_cap_per_day,
     near_duplicate_window_seconds |-> near_duplicate_window_seconds,
     digest_delay_seconds |-> 600,
     urgent_event_types |-> urgent,
     suppress_event_types |-> suppress,
     promotional_event_types |-> promotional]

\* RuleConfig(): the defaults.
DefaultRules ==
    RuleConfig("v1", 180, 15, 3, 300,
               {"security_alert", "payment_failed", "message_direct"},
               {"passive_tip"}, {"promotion", "upsell"})

(***************************************************************************)
(* Events (app/models.py, NotificationEvent).                              *)
(***************************************************************************)
NotificationEvent(user_id, event_type, title, message, timestamp, channel, dedupe_key, expires_at) ==
    [user_id |-> user_id, event_type |-> event_type, title |-> title,
     message |-> message, timestamp |-> timestamp, channel |-> channel,
     dedupe_key |-> dedupe_key, expires_at |-> expires_at,
     timestamp_aware |-> TRUE, expires_at_aware |-> TRUE]

\* The event with its timestamp, or its expires_at, given without a UTC
\* offset: the field is declared "datetime", which accepts such a value as a
\* timezone-naive datetime.
NaiveTimestamp(event) == [event EXCEPT !.timestamp_aware = FALSE]
NaiveExpiresAt(event) == [event EXCEPT !.expires_at_aware = FALSE]

Users == {"u1", "u2"}

\* The request handlers run on worker threads; two of them are enough for two
\* decide calls to overlap.
Threads == {"t1", "t2"}

\* A worker thread that is running no decide call.
Idle == [pc |-> "idle", event |-> None, now |-> 0, rules |-> DefaultRules]

\* Sample texts.  TextB has five of its six words in common with TextA
\* (similarity 5/6), TextC four of the five words of TextA (4/5), and TextA2
\* is TextA in another case and spacing.
TextA == <<"a", " ", "b", " ", "c", " ", "d", " ", "e">>
TextA2 == <<" ", "A", " ", "B", " ", " ", "c", " ", "e", " ", "d", " ", "a", " ">>
TextB == <<"a", " ", "b", " ", "c", " ", "d", " ", "e", " ", "f">>
TextC == <<"a", " ", "b", " ", "c", " ", "d">>
TextBlank == <<" ", " ">>

(***************************************************************************)
(* The state machine: sequential callers.                                  *)
(***************************************************************************)
\* InMemoryStore.__init__
Init ==
    /\ clock = 0
    /\ rules = DefaultRules
    /\ events_by_user = [u \in Users |-> <<>>]
    /\ fingerprints_by_user = [u \in Users |-> <<>>]
    /\ exact_seen = <<>>
    /\ audit_by_user = [u \in Users |-> <<>>]
    /\ hist = <<>>
    /\ pre = [rules |-> DefaultRules,
              events_by_user |-> [u \in Users |-> <<>>],
              fingerprints_by_user |-> [u \in Users |-> <<>>],
              exact_seen |-> <<>>]
    /\ ticked = FALSE
    /\ calls = [t \in Threads |-> Idle]
    /\ args = <<>>
    /\ result = None

\* One call of engine.decide(event), from its first line to its return, with
\* no other call running.
Decide(event) ==
    LET u == event.user_id
        o == decide(events_by_user[u], fingerprints_by_user[u], exact_seen,
                    rules, clock, event)
    IN  /\ Len(hist) < MaxCalls
        /\ events_by_user' = [events_by_user EXCEPT ![u] = o.events]
        /\ fingerprints_by_user' = [fingerprints_by_user EXCEPT ![u] = o.fingerprints]
        /\ exact_seen' = o.exact_seen
        /\ hist' = Append(hist, [event |-> event, now |-> clock,
                                 response |-> o.response, rules_at_return |-> rules])
        /\ pre' = [rules |-> rules,
                   events_by_user |-> events_by_user,
                   fingerprints_by_user |-> fingerprints_by_user,
                   exact_seen |-> exact_seen]
        /\ ticked' = FALSE
        /\ UNCHANGED <<audit_by_user, args, result, clock, rules, calls>>

\* InMemoryStore.set_rules(r)
SetRules(r) ==
    /\ rules' = r
    /\ UNCHANGED <<audit_by_user, args, result, clock, events_by_user, fingerprints_by_user, exact_seen,
                   hist, pre, ticked, calls>>

\* set_rules(r) as the tests and scenarios call it: once, on the fresh store.
ConfigureRules(r) ==
    /\ hist = <<>>
    /\ rules = DefaultRules
    /\ ~ticked
    /\ SetRules(r)

\* The wall clock advances by d seconds before the next call.
Tick(d) ==
    /\ ~ticked
    /\ Len(hist) < MaxCalls
    /\ clock' = clock + d
    /\ ticked' = TRUE
    /\ UNCHANGED <<audit_by_user, args, result, rules, events_by_user, fingerprints_by_user, exact_seen,
                   hist, pre, calls>>

(***************************************************************************)
(* Reading the record of calls.                                            *)
(***************************************************************************)
Calls == 1..Len(hist)

\* The step of the pipeline at which a response was returned.
ReturnStep(response) ==
    CASE response.reason = "event_expired" -> 1
      [] response.reason = "event_type_suppressed" -> 2
      [] response.reason = "exact_duplicate" -> 3
      [] response.reason = "promotional_daily_cap_reached" -> 4
      [] response.reason = "near_duplicate" -> 5
      [] response.reason = "hourly_rate_limit_exceeded" -> 6
      [] response.reason = "channel_cooldown_active" -> 7
      [] response.reason = "passed_all_checks" -> 8

\* Call i was neither answered event_expired nor event_type_suppressed.
PastSuppression(i) == ReturnStep(hist[i].response) >= 3

\* Calls i and j carry the same dedupe key for the same user.
SameUserAndKey(i, j) ==
    /\ IsSome(hist[i].event.dedupe_key)
    /\ Val(hist[i].event.dedupe_key) # ""
    /\ hist[i].event.dedupe_key = hist[j].event.dedupe_key
    /\ hist[i].event.user_id = hist[j].event.user_id

IsExactDuplicate(i) ==
    /\ hist[i].response.decision = "Never"
    /\ hist[i].response.reason = "exact_duplicate"

(***************************************************************************)
(* Exact duplicates under one RuleConfig (set_rules at most once, before   *)
(* the first call): the defaults or a cooldown of zero.                    *)
(***************************************************************************)
ZeroCooldownRules ==
    RuleConfig("v0", 0, 15, 3, 300, {"security_alert"}, {"passive_tip"}, {"promotion"})

DedupeEvents ==
    { NotificationEvent("u1", "update", None, Some(TextA), clock, "push", Some("k1"), None),
      NotificationEvent("u1", "security_alert", Some(TextB), None, clock, "email",
                        Some("k1"), None),
      NotificationEvent("u2", "update", None, Some(TextA), clock, "push", Some("k1"), None),
      NotificationEvent("u1", "update", None, Some(TextC), clock, "email", Some("k2"), None),
      NotificationEvent("u1", "passive_tip", None, Some(TextA), clock, "push",
                        Some("k1"), None),
      NotificationEvent("u1", "update", None, Some(TextA), clock, "push", Some("k1"),
                        Some(clock - 1)),
      NotificationEvent("u1", "update", None, Some(TextA), clock, "push", Some(""), None) }

DedupeDecide == \E event \in DedupeEvents : Decide(event)
DedupeConfigure == ConfigureRules(ZeroCooldownRules)
DedupeTick == Tick(DefaultRules.cooldown_seconds)

NextDedupe == DedupeDecide \/ DedupeConfigure \/ DedupeTick

SpecDedupe == Init /\ [][NextDedupe]_vars

\* C1 as stated: the first call for (u, K) is never answered exact_duplicate,
\* and once a call for (u, K) got past expiry and suppression, every later
\* call for (u, K) within the cooldown of it that is itself neither expired
\* nor suppressed is answered NEVER/exact_duplicate.
C1_AsStated ==
    /\ \A j \in Calls :
          (\A i \in 1..(j - 1) : ~SameUserAndKey(i, j)) => ~IsExactDuplicate(j)
    /\ \A i, j \in Calls :
          ( /\ i < j
            /\ SameUserAndKey(i, j)
            /\ PastSuppression(i)
            /\ PastSuppression(j)
            /\ hist[j].now - hist[i].now <= rules.cooldown_seconds )
          => IsExactDuplicate(j)

\* C1, amended: the same, for the later calls within the cooldown of a call
\* that recorded the key, that is, one that got past expiry and suppression
\* and was not itself answered exact_duplicate (K not the empty string).
C1_ExactDuplicateWithinCooldown ==
    /\ \A j \in Calls :
          (\A i \in 1..(j - 1) : ~SameUserAndKey(i, j)) => ~IsExactDuplicate(j)
    /\ \A i, j \in Calls :
          ( /\ i < j
            /\ SameUserAndKey(i, j)
            /\ PastSuppression(i)
            /\ ~IsExactDuplicate(i)
            /\ PastSuppression(j)
            /\ hist[j].now - hist[i].now <= rules.cooldown_seconds )
          => IsExactDuplicate(j)

\* An urgent event is answered exact_duplicate at the last instant of the
\* cooldown of a call of another type, text and channel with the same key.
C1_Witness ==
    \E i, j \in Calls :
        /\ i < j
        /\ SameUserAndKey(i, j)
        /\ PastSuppression(i)
        /\ ~IsExactDuplicate(i)
        /\ hist[j].now - hist[i].now = rules.cooldown_seconds
        /\ rules.cooldown_seconds > 0
        /\ hist[i].event.event_type # hist[j].event.event_type
        /\ hist[i].event.channel # hist[j].event.channel
        /\ is_urgent(hist[j].event, rules)
        /\ IsExactDuplicate(j)

(***************************************************************************)
(* The hourly rate limit under one RuleConfig, every event stamped with    *)
(* the time of its call.                                                   *)
(***************************************************************************)
RateRules1 ==
    RuleConfig("r1", 0, 1, 3, 300, {"security_alert"}, {"passive_tip"}, {"promotion"})
RateRules2 ==
    RuleConfig("r2", 0, 2, 3, 300, {"security_alert"}, {"passive_tip"}, {"promotion"})

RateEvents ==
    { NotificationEvent("u1", "update", None, Some(TextA), clock, "push", None, None),
      NotificationEvent("u1", "update", None, Some(TextC), clock, "email", None, None),
      NotificationEvent("u1", "security_alert", None, Some(TextA), clock, "push", None, None),
      NotificationEvent("u2", "update", None, Some(TextA), clock, "push", None, None) }

RateDecide == \E event \in RateEvents : Decide(event)
RateConfigure == \E r \in {RateRules1, RateRules2} : ConfigureRules(r)
RateTick == \E d \in {1, HourSeconds} : Tick(d)

NextRate == RateDecide \/ RateConfigure \/ RateTick

SpecRate == Init /\ [][NextRate]_vars

DecidedNow(i) == hist[i].response.decision = "Now"

\* The calls for user u decided NOW (of any type) in the window seconds up to
\* call i, not counting call i.
RecordedBefore(i, window) ==
    {j \in 1..(i - 1) : /\ hist[j].event.user_id = hist[i].event.user_id
                        /\ DecidedNow(j)
                        /\ hist[j].now >= hist[i].now - window}

\* The non-urgent calls for the user of call i decided NOW in the span of
\* HourSeconds that starts with call i.
NonUrgentNowInHourFrom(i) ==
    {j \in Calls : /\ hist[j].event.user_id = hist[i].event.user_id
                   /\ DecidedNow(j)
                   /\ ~is_urgent(hist[j].event, rules)
                   /\ hist[j].now >= hist[i].now
                   /\ hist[j].now <= hist[i].now + HourSeconds}

\* C2: per user, no rolling hour holds more than max_per_hour non-urgent
\* events decided NOW, and a non-urgent event that reaches the rate-limit
\* step with max_per_hour or more events of the user recorded in the last
\* hour is answered LATER/hourly_rate_limit_exceeded.
C2_HourlyRateLimit ==
    /\ \A i \in Calls :
          Cardinality(NonUrgentNowInHourFrom(i)) <= rules.max_per_hour
    /\ \A i \in Calls :
          ( /\ ~is_urgent(hist[i].event, rules)
            /\ ReturnStep(hist[i].response) >= 6
            /\ Cardinality(RecordedBefore(i, HourSeconds)) >= rules.max_per_hour )
          => /\ hist[i].response.decision = "Later"
             /\ hist[i].response.reason = "hourly_rate_limit_exceeded"

\* With max_per_hour = 2, a non-urgent event is deferred by the rate limit
\* because of an urgent and a non-urgent event recorded exactly an hour ago.
C2_Witness ==
    \E i \in Calls :
        /\ rules.max_per_hour = 2
        /\ ~is_urgent(hist[i].event, rules)
        /\ hist[i].response.reason = "hourly_rate_limit_exceeded"
        /\ Cardinality(RecordedBefore(i, HourSeconds)) = 2
        /\ \A j \in RecordedBefore(i, HourSeconds) : hist[j].now = hist[i].now - HourSeconds
        /\ \E j \in RecordedBefore(i, HourSeconds) : is_urgent(hist[j].event, rules)

(***************************************************************************)
(* The promotional cap under one RuleConfig, every event stamped with the  *)
(* time of its call.  The type upsell is promotional and urgent.           *)
(***************************************************************************)
PromoRules1 ==
    RuleConfig("p1", 0, 15, 1, 300, {"security_alert", "upsell"}, {"passive_tip"},
               {"promotion", "upsell"})
PromoRules2 ==
    RuleConfig("p2", 0, 15, 2, 300, {"security_alert", "upsell"}, {"passive_tip"},
               {"promotion", "upsell"})

PromoEvents ==
    { NotificationEvent("u1", "promotion", None, Some(TextA), clock, "push", None, None),
      NotificationEvent("u1", "upsell", None, Some(TextA), clock, "push", None, None),
      NotificationEvent("u1", "update", None, Some(TextA), clock, "email", None, None),
      NotificationEvent("u2", "promotion", None, Some(TextA), clock, "push", None, None) }

PromoDecide == \E event \in PromoEvents : Decide(event)
PromoConfigure == \E r \in {PromoRules1, PromoRules2} : ConfigureRules(r)
PromoTick == \E d \in {1, DaySeconds} : Tick(d)

NextPromo == PromoDecide \/ PromoConfigure \/ PromoTick

SpecPromo == Init /\ [][NextPromo]_vars

\* The promotional calls for the user of call i decided NOW in the span of
\* DaySeconds that starts with call i.
PromoNowInDayFrom(i) ==
    {j \in Calls : /\ hist[j].event.user_id = hist[i].event.user_id
                   /\ DecidedNow(j)
                   /\ is_promotional(hist[j].event, rules)
                   /\ hist[j].now >= hist[i].now
                   /\ hist[j].now <= hist[i].now + DaySeconds}

PromoRecordedBefore(i) ==
    {j \in RecordedBefore(i, DaySeconds) : is_promotional(hist[j].event, rules)}

\* C3: per user, no rolling 24 hours hold more than promotional_cap_per_day
\* promotional events decided NOW, and a promotional event (urgent or not)
\* that reaches the cap step with that many promotional events of the user
\* decided NOW in the last 24 hours is answered
\* NEVER/promotional_daily_cap_reached.
C3_PromotionalCap ==
    /\ \A i \in Calls :
          Cardinality(PromoNowInDayFrom(i)) <= rules.promotional_cap_per_day
    /\ \A i \in Calls :
          ( /\ is_promotional(hist[i].event, rules)
            /\ ReturnStep(hist[i].response) >= 4
            /\ Cardinality(PromoRecordedBefore(i)) >= rules.promotional_cap_per_day )
          => /\ hist[i].response.decision = "Never"
             /\ hist[i].response.reason = "promotional_daily_cap_reached"

\* With a cap of 2, an urgent promotional event is refused because of two
\* promotional events decided NOW, the older one exactly 24 hours ago.
C3_Witness ==
    \E i \in Calls :
        /\ rules.promotional_cap_per_day = 2
        /\ is_urgent(hist[i].event, rules)
        /\ hist[i].response.reason = "promotional_daily_cap_reached"
        /\ Cardinality(PromoRecordedBefore(i)) = 2
        /\ \E j \in PromoRecordedBefore(i) : hist[j].now = hist[i].now - DaySeconds

(***************************************************************************)
(* The channel cooldown under one RuleConfig: the defaults, or a cooldown  *)
(* of three days, longer than the two days events are kept.  One event     *)
(* carries a timestamp an hour older than its call.                        *)
(***************************************************************************)
LongCooldownRules ==
    RuleConfig("c3", EventRetentionSeconds + DaySeconds, 15, 3, 300,
               {"security_alert"}, {"passive_tip"}, {"promotion"})

CooldownEvents ==
    { NotificationEvent("u1", "update", None, Some(TextA), clock, "push", None, None),
      NotificationEvent("u1", "update", Some(TextC), None, clock, "push", Some("k1"), None),
      NotificationEvent("u1", "update", None, Some(TextBlank), clock, "email", None, None),
      NotificationEvent("u1", "security_alert", None, Some(TextA), clock, "push", None, None),
      NotificationEvent("u1", "update", None, None, clock - HourSeconds, "push", None, None) }

CooldownDecide == \E event \in CooldownEvents : Decide(event)
CooldownConfigure == ConfigureRules(LongCooldownRules)
CooldownTick ==
    \E d \in {DefaultRules.cooldown_seconds, EventRetentionSeconds + HourSeconds} : Tick(d)

NextCooldown == CooldownDecide \/ CooldownConfigure \/ CooldownTick

SpecCooldown == Init /\ [][NextCooldown]_vars

SameUserAndChannel(i, j) ==
    /\ hist[i].event.user_id = hist[j].event.user_id
    /\ hist[i].event.channel = hist[j].event.channel

IsCooldownDeferral(j) ==
    /\ hist[j].response.decision = "Later"
    /\ hist[j].response.reason = "channel_cooldown_active"

\* Call j is a non-urgent call on the channel of call i, for the same user,
\* made within the cooldown after call i was decided NOW.
InCooldownOf(i, j) ==
    /\ i < j
    /\ SameUserAndChannel(i, j)
    /\ DecidedNow(i)
    /\ ~is_urgent(hist[j].event, rules)
    /\ hist[j].now - hist[i].now <= rules.cooldown_seconds

\* C4 as stated: after an event of u on channel c was decided NOW, no
\* non-urgent event of u on c is decided NOW within the cooldown; one that
\* no step 1-6 answers is answered LATER/channel_cooldown_active; and only
\* events on the channel of an earlier NOW event are deferred by this step.
C4_AsStated ==
    /\ \A i, j \in Calls :
          InCooldownOf(i, j)
          => /\ ~DecidedNow(j)
             /\ ReturnStep(hist[j].response) >= 7 => IsCooldownDeferral(j)
    /\ \A j \in Calls :
          IsCooldownDeferral(j)
          => \E i \in 1..(j - 1) : SameUserAndChannel(i, j) /\ DecidedNow(i)

\* C4, amended: the same, when the event decided NOW carries the time of
\* its decision as its timestamp and the cooldown is no longer than the two
\* days events are kept.
C4_ChannelCooldown ==
    /\ \A i, j \in Calls :
          ( /\ InCooldownOf(i, j)
            /\ hist[i].event.timestamp = hist[i].now
            /\ rules.cooldown_seconds <= EventRetentionSeconds )
          => /\ ~DecidedNow(j)
             /\ ReturnStep(hist[j].response) >= 7 => IsCooldownDeferral(j)
    /\ \A j \in Calls :
          IsCooldownDeferral(j)
          => \E i \in 1..(j - 1) : SameUserAndChannel(i, j) /\ DecidedNow(i)

\* An event is deferred at the last instant of the cooldown of an event of
\* another dedupe key and text on the same channel.
C4_Witness ==
    \E i, j \in Calls :
        /\ InCooldownOf(i, j)
        /\ hist[i].event.timestamp = hist[i].now
        /\ hist[j].now - hist[i].now = rules.cooldown_seconds
        /\ rules.cooldown_seconds <= EventRetentionSeconds
        /\ hist[i].event.dedupe_key # hist[j].event.dedupe_key
        /\ combined_text(hist[i].event) # combined_text(hist[j].event)
        /\ IsCooldownDeferral(j)

(***************************************************************************)
(* Near duplicates: texts of similarity 1, 5/6, 4/5 and 4/6, an empty      *)
(* text, two event types, two users, under the default rules.              *)
(***************************************************************************)
NearDupEvents ==
    { NotificationEvent("u1", "update", None, Some(TextA), clock, "push", None, None),
      NotificationEvent("u1", "update", Some(TextB), None, clock, "push", None, None),
      NotificationEvent("u1", "update", None, Some(TextC), clock, "email", None, None),
      NotificationEvent("u1", "reminder", Some(TextA2), None, clock, "push", None, None),
      NotificationEvent("u2", "update", None, Some(TextA), clock, "push", None, None),
      NotificationEvent("u1", "update", None, Some(TextBlank), clock, "sms", None, None),
      NotificationEvent("u1", "security_alert", None, Some(TextA), clock, "push", None, None) }

NearDupDecide == \E event \in NearDupEvents : Decide(event)
NearDupTick == Tick(DefaultRules.near_duplicate_window_seconds)

NextNearDup == NearDupDecide \/ NearDupTick

SpecNearDup == Init /\ [][NextNearDup]_vars

\* The last call made, and what it found.
Last == hist[Len(hist)]
LastUser == Last.event.user_id
LastFingerprint == token_fingerprint(combined_text(Last.event))

\* The last call was for a non-urgent event and got past steps 1 to 4.
LastReachedStep5 ==
    /\ hist # <<>>
    /\ ~is_urgent(Last.event, pre.rules)
    /\ ReturnStep(Last.response) >= 5

\* The fingerprints the last call found recorded for its user that are of
\* its event type, not older than the near-duplicate window, and similar
\* enough to its own fingerprint, which is not empty.
LastNearDuplicates ==
    LET q == pre.fingerprints_by_user[LastUser]
    IN  {k \in 1..Len(q) :
            /\ LastFingerprint # <<>>
            /\ q[k].event.event_type = Last.event.event_type
            /\ q[k].seen_at >= Last.now - pre.rules.near_duplicate_window_seconds
            /\ AtLeastPct(jaccard_similarity(LastFingerprint, q[k].fingerprint),
                          NearDuplicateThresholdPct)}

\* C5: a non-urgent event that passed steps 1-4, the near-duplicate window
\* being no longer than the fingerprint retention, is answered
\* LATER/near_duplicate exactly if a fingerprint recorded for the user with
\* the same event type within the window has similarity >= 0.82 with its
\* own non-empty fingerprint.
C5_NearDuplicateIff ==
    ( /\ LastReachedStep5
      /\ pre.rules.near_duplicate_window_seconds <= FingerprintRetentionSeconds )
    => ( (Last.response.reason = "near_duplicate") <=> (LastNearDuplicates # {}) )
       /\ (Last.response.reason = "near_duplicate" => Last.response.decision = "Later")

\* An event is deferred as the near duplicate of a text of similarity 5/6
\* recorded a whole window earlier, while a fingerprint of similarity 4/5 and
\* an equal fingerprint of another type did not count.
C5_Witness ==
    /\ LastReachedStep5
    /\ Last.response.reason = "near_duplicate"
    /\ LET q == pre.fingerprints_by_user[LastUser]
       IN  /\ \A k \in LastNearDuplicates :
                 /\ jaccard_similarity(LastFingerprint, q[k].fingerprint) = <<5, 6>>
                 /\ q[k].seen_at = Last.now - pre.rules.near_duplicate_window_seconds
           /\ \E k \in 1..Len(q) :
                 /\ q[k].event.event_type # Last.event.event_type
                 /\ q[k].fingerprint = LastFingerprint

\* q is p without some of its first elements.
IsSuffix(q, p) ==
    /\ Len(q) <= Len(p)
    /\ q = SubSeq(p, Len(p) - Len(q) + 1, Len(p))

\* The last call left the fingerprint queue of its user with one new entry,
\* its own, at the end (older entries may have been trimmed at the front).
LastAppendedFingerprint ==
    LET q == fingerprints_by_user[LastUser]
    IN  /\ q # <<>>
        /\ q[Len(q)] = RecentFingerprint(LastFingerprint, Last.event, Last.now)
        /\ IsSuffix(SubSeq(q, 1, Len(q) - 1), pre.fingerprints_by_user[LastUser])

\* The last call appended nothing to the fingerprint queue of its user.
LastAppendedNoFingerprint ==
    IsSuffix(fingerprints_by_user[LastUser], pre.fingerprints_by_user[LastUser])

\* C6 as stated: every call that reaches step 5 appends exactly one
\* fingerprint entry for its event, whatever the outcome of the step.
C6_AsStated == LastReachedStep5 => LastAppendedFingerprint

\* C6, amended: every call that reaches step 5 appends exactly one
\* fingerprint entry for its event, the empty fingerprint included, unless
\* the step answers LATER/near_duplicate; then it appends none.
C6_FingerprintRecorded ==
    LastReachedStep5
    => IF Last.response.reason = "near_duplicate"
       THEN LastAppendedNoFingerprint
       ELSE LastAppendedFingerprint

\* An empty fingerprint was appended by a call deferred by the cooldown.
C6_Witness ==
    /\ LastReachedStep5
    /\ LastFingerprint = <<>>
    /\ Last.response.reason = "channel_cooldown_active"
    /\ LastAppendedFingerprint
    /\ Len(fingerprints_by_user[LastUser]) >= 2

(***************************************************************************)
(* Sequential calls under a RuleConfig that set_rules may replace between  *)
(* any two of them: the defaults, or a strict configuration in which       *)
(* "promotion" is urgent and promotional, and "digest" is urgent,          *)
(* promotional and suppressed.  Expiry times are absolute, so that the     *)
(* same event is live at one call and expired at a later one.              *)
(***************************************************************************)
StrictRules ==
    RuleConfig("v2", 180, 1, 1, 300, {"security_alert", "promotion", "digest"},
               {"passive_tip", "digest"}, {"promotion", "digest"})

RuleConfigs == {DefaultRules, StrictRules}

MixedEvents ==
    { NotificationEvent("u1", "update", None, Some(TextA), clock, "push", None, None),
      NotificationEvent("u1", "security_alert", None, Some(TextA), clock, "push",
                        Some("k1"), Some(1)),
      NotificationEvent("u1", "promotion", None, Some(TextA), clock, "push", None, None),
      NotificationEvent("u1", "digest", Some(TextB), None, clock, "email", Some("k1"), None),
      NotificationEvent("u1", "passive_tip", None, Some(TextA), clock, "push", None, Some(0)) }

MixedDecide == \E event \in MixedEvents : Decide(event)
MixedSetRules == \E r \in RuleConfigs : r # rules /\ SetRules(r)
MixedTick == Tick(1)

Next == MixedDecide \/ MixedSetRules \/ MixedTick

Spec == Init /\ [][Next]_vars

\* The last call was for an event of a type the RuleConfig it ran under
\* lists as urgent.
LastIsUrgent ==
    /\ hist # <<>>
    /\ Last.event.event_type \in pre.rules.urgent_event_types

LastIsExpired ==
    /\ hist # <<>>
    /\ Last.event.expires_at # None
    /\ Val(Last.event.expires_at) < Last.now

LastIsSuppressed ==
    /\ hist # <<>>
    /\ Last.event.event_type \in pre.rules.suppress_event_types

\* The last call found its dedupe key recorded within the cooldown.
LastFoundKeySeen ==
    /\ has_dedupe_key(Last.event)
    /\ exact_seen_within(pre.exact_seen, LastUser, Val(Last.event.dedupe_key),
                         pre.rules.cooldown_seconds, Last.now)

\* The last call, for a promotional type, found the daily cap used up.
LastFoundCapReached ==
    /\ Last.event.event_type \in pre.rules.promotional_event_types
    /\ promo_count(recent_events(pre.events_by_user[LastUser], DaySeconds, Last.now),
                   pre.rules) >= pre.rules.promotional_cap_per_day

\* The last call left the event history of its user with one new entry, its
\* own event, at the end (older entries may have been trimmed at the front).
LastRecordedEvent ==
    LET q == events_by_user[LastUser]
    IN  /\ q # <<>>
        /\ q[Len(q)] = Last.event
        /\ IsSuffix(SubSeq(q, 1, Len(q) - 1), pre.events_by_user[LastUser])

\* C7: an event of an urgent type is never answered LATER and leaves the
\* fingerprint queues as they were; unless it is expired, suppressed, an exact
\* duplicate or over the promotional cap (then it is answered NEVER), it is
\* answered NOW and recorded in the event history.
C7_UrgentBypass ==
    LastIsUrgent =>
        /\ Last.response.decision # "Later"
        /\ fingerprints_by_user = pre.fingerprints_by_user
        /\ IF LastIsExpired \/ LastIsSuppressed \/ LastFoundKeySeen \/ LastFoundCapReached
           THEN Last.response.decision = "Never"
           ELSE /\ Last.response.decision = "Now"
                /\ Last.response.reason = "passed_all_checks"
                /\ LastRecordedEvent

\* An urgent event is answered NOW and recorded although its user has used
\* up the hourly maximum, its channel is in cooldown, and the fingerprint of
\* the same text and type was recorded in the same second.
C7_Witness ==
    /\ LastIsUrgent
    /\ Last.response.decision = "Now"
    /\ LastRecordedEvent
    /\ over_hourly_limit(recent_events(pre.events_by_user[LastUser], HourSeconds, Last.now),
                         pre.rules)
    /\ channel_in_cooldown(recent_events(pre.events_by_user[LastUser],
                                         pre.rules.cooldown_seconds, Last.now), Last.event)
    /\ \E k \in 1..Len(pre.fingerprints_by_user[LastUser]) :
          /\ pre.fingerprints_by_user[LastUser][k].fingerprint = LastFingerprint
          /\ pre.fingerprints_by_user[LastUser][k].seen_at = Last.now

\* C8: an event whose expires_at is before the time of the call is answered
\* NEVER, event_expired, risk 0.0, whatever its type, key, the RuleConfig and
\* the store; an event with no expires_at, or one not before the time of the
\* call, is never answered event_expired.
C8_Expired ==
    hist # <<>> =>
        IF LastIsExpired
        THEN Last.response =
                 DecisionResponse("Never", "event_expired", None, pre.rules.policy_version, 0)
        ELSE Last.response.reason # "event_expired"

\* An event of an urgent type whose dedupe key was recorded and whose user
\* has a history is answered event_expired one second after its expiry,
\* having been answered otherwise at the instant of its expiry.
C8_Witness ==
    /\ LastIsExpired
    /\ LastIsUrgent
    /\ Last.now = Val(Last.event.expires_at) + 1
    /\ <<LastUser, Val(Last.event.dedupe_key)>> \in DOMAIN pre.exact_seen
    /\ pre.events_by_user[LastUser] # <<>>
    /\ Last.response.reason = "event_expired"
    /\ \E i \in Calls :
          /\ hist[i].event.expires_at = Last.event.expires_at
          /\ hist[i].now = Val(Last.event.expires_at)
          /\ hist[i].response.reason # "event_expired"

\* C9: an event that is not expired and whose type the RuleConfig lists as
\* suppressed is answered NEVER, event_type_suppressed, risk 0.0, also when
\* the type is listed as urgent or promotional, whatever its dedupe key.
C9_Suppressed ==
    (LastIsSuppressed /\ ~LastIsExpired) =>
        Last.response =
            DecisionResponse("Never", "event_type_suppressed", None,
                             pre.rules.policy_version, 0)

\* An event of a type listed as suppressed, urgent and promotional at once,
\* carrying a dedupe key recorded within the cooldown, is answered
\* event_type_suppressed.
C9_Witness ==
    /\ LastIsSuppressed
    /\ ~LastIsExpired
    /\ LastIsUrgent
    /\ Last.event.event_type \in pre.rules.promotional_event_types
    /\ LastFoundKeySeen
    /\ Last.response.reason = "event_type_suppressed"

(***************************************************************************)
(* Overlapping calls.  The handlers of main.py run on worker threads and   *)
(* neither the engine nor the store takes a lock, so the store accesses of *)
(* two decide calls interleave.  Each store access of a call is one step;  *)
(* what the call computes on its own between two accesses belongs to the   *)
(* step of the access before it.  calls[t].pc names the store access the   *)
(* call of thread t makes next.                                            *)
(***************************************************************************)
Busy == {t \in Threads : calls[t].pc # "idle"}

\* Thread t goes on to the store access named pc.
Goto(t, pc) ==
    /\ calls' = [calls EXCEPT ![t].pc = pc]
    /\ UNCHANGED hist

\* The call of thread t for event, begun at time now, returns response.
Return(t, event, now, response) ==
    /\ calls' = [calls EXCEPT ![t] = Idle]
    /\ hist' = Append(hist, [event |-> event, now |-> now, response |-> response,
                             rules_at_return |-> rules])

\* The rules of a call that calls get_rules() anew wherever it uses them.
LocalRulesReread(t) == rules

\* engine.py 53: the local variable rules of the call thread t is running,
\* read once from the store when the call began.
LocalRules(t) == calls[t].rules

\* The first store access after step 5's test of the event type.
AccessAfterCap(event, r) ==
    IF is_urgent(event, r) THEN "add_event"
    ELSE IF token_fingerprint(combined_text(event)) # <<>> THEN "recent_fingerprints"
    ELSE "push_fingerprint"

\* AccessAfterDedupe without step 4: the promotional cap is never looked at.
AccessAfterDedupeSkipCap(event, r) == AccessAfterCap(event, r)

\* The first store access after step 3.
AccessAfterDedupe(event, r) ==
    IF is_promotional(event, r) THEN "recent_events_day" ELSE AccessAfterCap(event, r)

\* engine.py 53-77: get_rules(), utc_now(), and steps 1 and 2, which touch
\* no store.
Begin(t, event) ==
    /\ calls[t].pc = "idle"
    /\ Len(hist) + Cardinality(Busy) < MaxConcurrentCalls
    /\ ticked' = FALSE
    /\ pre' = [rules |-> rules,
               events_by_user |-> events_by_user,
               fingerprints_by_user |-> fingerprints_by_user,
               exact_seen |-> exact_seen]
    /\ UNCHANGED <<audit_by_user, args, result, clock, rules, events_by_user, fingerprints_by_user, exact_seen>>
    /\ IF is_expired(event, clock)
       THEN Return(t, event, clock,
                DecisionResponse("Never", "event_expired", None, rules.policy_version, 0))
       ELSE IF is_suppressed(event, rules)
       THEN Return(t, event, clock,
                DecisionResponse("Never", "event_type_suppressed", None,
                                 rules.policy_version, 0))
       ELSE /\ calls' = [calls EXCEPT ![t] =
                    [pc |-> IF has_dedupe_key(event) THEN "exact_seen_within"
                            ELSE AccessAfterDedupe(event, rules),
                     event |-> Some(event), now |-> clock, rules |-> rules]]
            /\ UNCHANGED hist

\* engine.py 78: store.exact_seen_within(...)
ExactSeenWithin(t) ==
    LET c == calls[t]
        event == Val(c.event)
    IN  /\ c.pc = "exact_seen_within"
        /\ UNCHANGED <<audit_by_user, args, result, clock, rules, events_by_user, fingerprints_by_user, exact_seen,
                       pre, ticked>>
        /\ IF exact_seen_within(exact_seen, event.user_id, Val(event.dedupe_key),
                                LocalRules(t).cooldown_seconds, clock)
           THEN Return(t, event, c.now,
                    DecisionResponse("Never", "exact_duplicate", None,
                                     LocalRules(t).policy_version, 0))
           ELSE Goto(t, "mark_exact_seen")

\* engine.py 87: store.mark_exact_seen(...)
MarkExactSeen(t) ==
    LET c == calls[t]
        event == Val(c.event)
    IN  /\ c.pc = "mark_exact_seen"
        /\ exact_seen' = mark_exact_seen(exact_seen, event.user_id,
                                         Val(event.dedupe_key), c.now)
        /\ Goto(t, AccessAfterDedupe(event, LocalRules(t)))
        /\ UNCHANGED <<audit_by_user, args, result, clock, rules, events_by_user, fingerprints_by_user, pre, ticked>>

\* engine.py 91-102: store.recent_events(user, 86400) and the cap test
RecentEventsDay(t) ==
    LET c == calls[t]
        event == Val(c.event)
        u == event.user_id
    IN  /\ c.pc = "recent_events_day"
        /\ events_by_user' = [events_by_user EXCEPT ![u] = trim_events(@, clock)]
        /\ UNCHANGED <<audit_by_user, args, result, clock, rules, fingerprints_by_user, exact_seen, pre, ticked>>
        /\ IF promo_count(recent_events(events_by_user[u], DaySeconds, clock), LocalRules(t))
                  >= LocalRules(t).promotional_cap_per_day
           THEN Return(t, event, c.now,
                    DecisionResponse("Never", "promotional_daily_cap_reached", None,
                                     LocalRules(t).policy_version, 0))
           ELSE Goto(t, AccessAfterCap(event, LocalRules(t)))

\* engine.py 112-125: store.recent_fingerprints(...) and the comparisons
RecentFingerprints(t) ==
    LET c == calls[t]
        event == Val(c.event)
        u == event.user_id
    IN  /\ c.pc = "recent_fingerprints"
        /\ fingerprints_by_user' =
               [fingerprints_by_user EXCEPT ![u] = trim_fingerprints(@, clock)]
        /\ UNCHANGED <<audit_by_user, args, result, clock, rules, events_by_user, exact_seen, pre, ticked>>
        /\ IF near_duplicate_found(
                  token_fingerprint(combined_text(event)),
                  recent_fingerprints(fingerprints_by_user[u],
                                      LocalRules(t).near_duplicate_window_seconds, clock),
                  event)
           THEN Return(t, event, c.now,
                    DecisionResponse("Later", "near_duplicate", Some(c.now),
                                     LocalRules(t).policy_version, 5))
           ELSE Goto(t, "push_fingerprint")

\* engine.py 128: store.push_fingerprint(...)
PushFingerprint(t) ==
    LET c == calls[t]
        event == Val(c.event)
        u == event.user_id
    IN  /\ c.pc = "push_fingerprint"
        /\ fingerprints_by_user' =
               [fingerprints_by_user EXCEPT ![u] =
                   push_fingerprint(@, token_fingerprint(combined_text(event)),
                                    event, c.now, clock)]
        /\ Goto(t, "recent_events_hour")
        /\ UNCHANGED <<audit_by_user, args, result, clock, rules, events_by_user, exact_seen, pre, ticked>>

\* engine.py 132-140: store.recent_events(user, 3600) and the limit test
RecentEventsHour(t) ==
    LET c == calls[t]
        event == Val(c.event)
        u == event.user_id
    IN  /\ c.pc = "recent_events_hour"
        /\ events_by_user' = [events_by_user EXCEPT ![u] = trim_events(@, clock)]
        /\ UNCHANGED <<audit_by_user, args, result, clock, rules, fingerprints_by_user, exact_seen, pre, ticked>>
        /\ IF over_hourly_limit(recent_events(events_by_user[u], HourSeconds, clock),
                                LocalRules(t))
           THEN Return(t, event, c.now,
                    DecisionResponse("Later", "hourly_rate_limit_exceeded", Some(c.now),
                                     LocalRules(t).policy_version, 3))
           ELSE Goto(t, "recent_events_cooldown")

\* engine.py 144-155: store.recent_events(user, cooldown_seconds) and the
\* search for the channel
RecentEventsCooldown(t) ==
    LET c == calls[t]
        event == Val(c.event)
        u == event.user_id
    IN  /\ c.pc = "recent_events_cooldown"
        /\ events_by_user' = [events_by_user EXCEPT ![u] = trim_events(@, clock)]
        /\ UNCHANGED <<audit_by_user, args, result, clock, rules, fingerprints_by_user, exact_seen, pre, ticked>>
        /\ IF channel_in_cooldown(
                  recent_events(events_by_user[u], LocalRules(t).cooldown_seconds, clock), event)
           THEN Return(t, event, c.now,
                    DecisionResponse("Later", "channel_cooldown_active", Some(c.now),
                                     LocalRules(t).policy_version, 2))
           ELSE Goto(t, "add_event")

\* engine.py 158-165: store.add_event(event) and the NOW response
AddEvent(t) ==
    LET c == calls[t]
        event == Val(c.event)
        u == event.user_id
    IN  /\ c.pc = "add_event"
        /\ events_by_user' = [events_by_user EXCEPT ![u] = add_event(@, event, clock)]
        /\ Return(t, event, c.now,
               DecisionResponse("Now", "passed_all_checks", None, LocalRules(t).policy_version, 0))
        /\ UNCHANGED <<audit_by_user, args, result, clock, rules, fingerprints_by_user, exact_seen, pre, ticked>>

\* The next store access of the call thread t is running.
Step(t) ==
    \/ ExactSeenWithin(t)
    \/ MarkExactSeen(t)
    \/ RecentEventsDay(t)
    \/ RecentFingerprints(t)
    \/ PushFingerprint(t)
    \/ RecentEventsHour(t)
    \/ RecentEventsCooldown(t)
    \/ AddEvent(t)

(***************************************************************************)
(* Two worker threads deciding events of one user that carry one dedupe    *)
(* key, under the default rules: an urgent one, a plain one and a          *)
(* promotional one, on three channels and with three texts.                *)
(***************************************************************************)
ConcEvents ==
    { NotificationEvent("u1", "security_alert", None, Some(TextA), clock, "push",
                        Some("k1"), None),
      NotificationEvent("u1", "update", Some(TextB), None, clock, "email",
                        Some("k1"), None),
      NotificationEvent("u1", "promotion", None, Some(TextC), clock, "sms",
                        Some("k1"), None) }

ConcBegin == \E t \in Threads : \E event \in ConcEvents : Begin(t, event)
ConcStep == \E t \in Threads : Step(t)
ConcTick == Tick(DefaultRules.cooldown_seconds)

NextConc == ConcBegin \/ ConcStep \/ ConcTick

SpecConc == Init /\ [][NextConc]_vars

\* C10: of two decide calls for the same user and dedupe key that begin
\* within the cooldown of each other and both get past the expiry and
\* suppression steps, at most one is answered otherwise than
\* NEVER/exact_duplicate.
C10_ExactlyOnce ==
    \A i, j \in Calls :
        ( /\ i # j
          /\ SameUserAndKey(i, j)
          /\ PastSuppression(i)
          /\ PastSuppression(j)
          /\ hist[i].now - hist[j].now <= rules.cooldown_seconds
          /\ hist[j].now - hist[i].now <= rules.cooldown_seconds )
        => (IsExactDuplicate(i) \/ IsExactDuplicate(j))

(***************************************************************************)
(* Two worker threads deciding non-urgent events of one user that differ   *)
(* in text: two on one channel, of two types (one promotional, with a      *)
(* dedupe key), and one on another channel.  The rules are the defaults,   *)
(* or rules with an hourly maximum of one, set before the first call       *)
(* begins.                                                                 *)
(***************************************************************************)
LimitRules ==
    RuleConfig("c1", 180, 1, 3, 300, {"security_alert"}, {"passive_tip"}, {"promotion"})

LimitEvents ==
    { NotificationEvent("u1", "update", None, Some(TextA), clock, "push", None, None),
      NotificationEvent("u1", "promotion", None, Some(TextC), clock, "push",
                        Some("k1"), None),
      NotificationEvent("u1", "update", Some(TextBlank), None, clock, "email", None, None) }

LimitBegin == \E t \in Threads : \E event \in LimitEvents : Begin(t, event)
LimitStep == \E t \in Threads : Step(t)
LimitConfigure == Busy = {} /\ ConfigureRules(LimitRules)
LimitTick == Tick(1)

NextConcLimits == LimitBegin \/ LimitStep \/ LimitConfigure \/ LimitTick

SpecConcLimits == Init /\ [][NextConcLimits]_vars

\* Calls i and j, both for non-urgent events of one user on one channel, begun
\* within the cooldown of each other, were both decided NOW.
BothNowInCooldown(i, j) ==
    /\ i # j
    /\ SameUserAndChannel(i, j)
    /\ ~is_urgent(hist[i].event, rules)
    /\ ~is_urgent(hist[j].event, rules)
    /\ DecidedNow(i)
    /\ DecidedNow(j)
    /\ hist[j].now - hist[i].now <= rules.cooldown_seconds
    /\ hist[i].now - hist[j].now <= rules.cooldown_seconds

\* C11: however the store accesses of overlapping calls interleave, no hour
\* holds more than max_per_hour non-urgent events of a user decided NOW, and
\* no two non-urgent events of a user on one channel are both decided NOW
\* within the cooldown.
C11_AtMostN ==
    /\ \A i \in Calls : Cardinality(NonUrgentNowInHourFrom(i)) <= rules.max_per_hour
    /\ \A i, j \in Calls : ~BothNowInCooldown(i, j)

(***************************************************************************)
(* set_rules running while a decide call is in progress: one call at a     *)
(* time, with set_rules free to replace the rules between any two of its   *)
(* store accesses.  The clock stands still while the call runs.            *)
(***************************************************************************)
RulesBegin == Busy = {} /\ \E event \in MixedEvents : Begin("t1", event)
RulesStep == Step("t1")
RulesSetRules == \E r \in RuleConfigs : r # rules /\ SetRules(r)
RulesTick == Busy = {} /\ Tick(1)

NextConcRules == RulesBegin \/ RulesStep \/ RulesSetRules \/ RulesTick

SpecConcRules == Init /\ [][NextConcRules]_vars

\* What decide answers to the last call, and the store it leaves, when every
\* step of it is evaluated under the RuleConfig r.
LastUnder(r) ==
    decide(pre.events_by_user[LastUser], pre.fingerprints_by_user[LastUser],
           pre.exact_seen, r, Last.now, Last.event)

\* C12: a decide call during which set_rules may have run answers, and
\* leaves the store, as one RuleConfig applied to every step decides, and
\* reports the policy_version of that RuleConfig.
C12_SingleRuleConfig ==
    (Busy = {} /\ hist # <<>>) =>
        \E r \in RuleConfigs :
            /\ Last.response = LastUnder(r).response
            /\ Last.response.policy_version = r.policy_version
            /\ events_by_user[LastUser] = LastUnder(r).events
            /\ fingerprints_by_user[LastUser] = LastUnder(r).fingerprints
            /\ exact_seen = LastUnder(r).exact_seen

\* set_rules ran between the first and the last store access of a call; the
\* call is answered as the rules it began under decide, which is not the
\* decision that the rules in force at its return would have given.
C12_Witness ==
    /\ Busy = {}
    /\ hist # <<>>
    /\ ReturnStep(Last.response) >= 6
    /\ Last.rules_at_return # pre.rules
    /\ Last.response = LastUnder(pre.rules).response
    /\ Last.response.decision # LastUnder(Last.rules_at_return).response.decision

\* C13: every response reports the policy_version of the RuleConfig that
\* was in the store when its call began, which is the one whose parameters
\* decided it, whatever set_rules does before the call returns; a call
\* begun after set_rules(cfg) reports cfg.policy_version; and a response
\* already returned is not changed by anything later, set_rules included.
C13_PolicyVersion ==
    /\ []((Busy = {} /\ hist # <<>>) =>
            /\ Last.response.policy_version = pre.rules.policy_version
            /\ Last.response = LastUnder(pre.rules).response)
    /\ [][ /\ pre' # pre => pre'.rules = rules
           /\ Len(hist') >= Len(hist)
           /\ SubSeq(hist', 1, Len(hist)) = hist ]_vars

\* Two responses report two policy versions: the first was returned before
\* set_rules replaced the rules, the second belongs to a call during which
\* set_rules replaced them again and reports the version it began under.
C13_Witness ==
    /\ Busy = {}
    /\ Len(hist) = 2
    /\ hist[1].response.policy_version # hist[2].response.policy_version
    /\ hist[2].response.policy_version = pre.rules.policy_version
    /\ hist[2].rules_at_return # pre.rules
    /\ hist[1].response.policy_version = hist[1].rules_at_return.policy_version

(***************************************************************************)
(* The responses of the sequential calls of Spec.                          *)
(***************************************************************************)
\* The rows (decision, reason, risk in tenths) a response may be.
ResponseTable ==
    { <<"Never", "event_expired", 0>>,
      <<"Never", "event_type_suppressed", 0>>,
      <<"Never", "exact_duplicate", 0>>,
      <<"Never", "promotional_daily_cap_reached", 0>>,
      <<"Later", "near_duplicate", 5>>,
      <<"Later", "hourly_rate_limit_exceeded", 3>>,
      <<"Later", "channel_cooldown_active", 2>>,
      <<"Now", "passed_all_checks", 0>> }

ResponseRow(response) == <<response.decision, response.reason, response.risk_score>>

\* C14: every response is a row of the table, and carries a scheduled_for
\* time, the time of its call, exactly if its decision is LATER.
C14_ResponseTable ==
    \A i \in Calls :
        /\ ResponseRow(hist[i].response) \in ResponseTable
        /\ IF hist[i].response.decision = "Later"
           THEN hist[i].response.scheduled_for = Some(hist[i].now)
           ELSE hist[i].response.scheduled_for = None

\* Three calls were answered NOW, LATER and NEVER, the LATER one at a time
\* other than zero.
C14_Witness ==
    /\ Len(hist) = 3
    /\ {hist[i].response.decision : i \in Calls} = {"Now", "Later", "Never"}
    /\ \E i \in Calls : /\ hist[i].response.decision = "Later"
                        /\ hist[i].now > 0
                        /\ hist[i].response.scheduled_for = Some(hist[i].now)

(***************************************************************************)
(* Calls that end in an exception.  The fields timestamp and expires_at    *)
(* accept timezone-naive datetimes, and the engine and the store order     *)
(* them against utc_now(), which is aware: "<" and ">=" between a naive    *)
(* and an aware datetime raise TypeError.  One call at a time, each store  *)
(* access one step; a call that raises is recorded with the decision       *)
(* "Raised" in place of a response.                                        *)
(***************************************************************************)
Raised(r) ==
    [decision |-> "Raised", reason |-> "TypeError", scheduled_for |-> None,
     policy_version |-> r.policy_version, risk_score |-> 0]

\* store.py 76-80, _trim_events: the queue when the loop ends, or when its
\* test "q[0].timestamp < cutoff" raises on a naive timestamp.
RECURSIVE trim_events_until_raise(_, _)
trim_events_until_raise(q, now) ==
    IF /\ q # <<>>
       /\ Head(q).timestamp_aware
       /\ Head(q).timestamp < now - EventRetentionSeconds
    THEN trim_events_until_raise(Tail(q), now)
    ELSE q

\* _trim_events raises: its loop comes upon a naive timestamp.
trim_events_raises(q, now) ==
    LET rest == trim_events_until_raise(q, now)
    IN  rest # <<>> /\ ~Head(rest).timestamp_aware

\* store.py 48-51, recent_events raises: in _trim_events, or in the test
\* "ev.timestamp >= cutoff" applied to every event left in the queue.
recent_events_raises(q, now) == \E i \in 1..Len(q) : ~q[i].timestamp_aware

\* engine.py 57: "event.expires_at < now" raises.
is_expired_raises(event) == IsSome(event.expires_at) /\ ~event.expires_at_aware

\* The next store access of the call thread t is running raises.
WouldRaise(t) ==
    LET c == calls[t]
        q == events_by_user[Val(c.event).user_id]
    IN  CASE c.pc \in {"recent_events_day", "recent_events_hour", "recent_events_cooldown"}
               -> recent_events_raises(q, clock)
          [] c.pc = "add_event" -> trim_events_raises(Append(q, Val(c.event)), clock)
          [] OTHER -> FALSE

\* The call of thread t ends in the TypeError its store access raises; what
\* the access did to the queue before raising stays done.
Raise(t) ==
    LET c == calls[t]
        event == Val(c.event)
        u == event.user_id
    IN  /\ c.pc # "idle"
        /\ WouldRaise(t)
        /\ events_by_user' =
               [events_by_user EXCEPT ![u] =
                   trim_events_until_raise(
                       IF c.pc = "add_event" THEN Append(@, event) ELSE @, clock)]
        /\ Return(t, event, c.now, Raised(LocalRules(t)))
        /\ UNCHANGED <<audit_by_user, args, result, clock, rules, fingerprints_by_user, exact_seen, pre, ticked>>

\* engine.py 53-57: the call raises in step 1, before any store access.
BeginRaises(t, event) ==
    /\ calls[t].pc = "idle"
    /\ Len(hist) + Cardinality(Busy) < MaxConcurrentCalls
    /\ is_expired_raises(event)
    /\ ticked' = FALSE
    /\ pre' = [rules |-> rules,
               events_by_user |-> events_by_user,
               fingerprints_by_user |-> fingerprints_by_user,
               exact_seen |-> exact_seen]
    /\ Return(t, event, clock, Raised(rules))
    /\ UNCHANGED <<audit_by_user, args, result, clock, rules, events_by_user, fingerprints_by_user, exact_seen>>

ErrorEvents ==
    { NaiveTimestamp(
          NotificationEvent("u1", "update", None, Some(TextA), clock, "push", None, None)),
      NaiveExpiresAt(
          NotificationEvent("u1", "update", None, Some(TextC), clock, "email", None,
                            Some(clock + HourSeconds))),
      NotificationEvent("u1", "security_alert", None, Some(TextA), clock, "push",
                        Some("k1"), None),
      NotificationEvent("u1", "promotion", Some(TextB), None, clock, "sms", None, None) }

ErrBegin ==
    /\ Busy = {}
    /\ \E event \in ErrorEvents :
          \/ BeginRaises("t1", event)
          \/ ~is_expired_raises(event) /\ Begin("t1", event)
ErrStep == ~WouldRaise("t1") /\ Step("t1")
ErrRaise == Raise("t1")
ErrTick == Busy = {} /\ Tick(1)

NextErrors == ErrBegin \/ ErrStep \/ ErrRaise \/ ErrTick

SpecErrors == Init /\ [][NextErrors]_vars

\* C15: every decide call returns a DecisionResponse: none ends in an error.
C15_AlwaysResponds ==
    \A i \in Calls : hist[i].response.decision \in {"Now", "Later", "Never"}

(***************************************************************************)
(* Dedupe keys on calls that later steps defer or drop: non-urgent events  *)
(* with four keys, and one whose key is the empty string, under one        *)
(* RuleConfig with a promotional cap of one and an hourly maximum of one   *)
(* or two.                                                                 *)
(***************************************************************************)
MarkRules1 ==
    RuleConfig("m1", 180, 1, 1, 300, {"security_alert"}, {"passive_tip"}, {"promotion"})
MarkRules2 ==
    RuleConfig("m2", 180, 2, 1, 300, {"security_alert"}, {"passive_tip"}, {"promotion"})

MarkEvents ==
    { NotificationEvent("u1", "promotion", None, Some(TextA), clock, "push", Some("k1"), None),
      NotificationEvent("u1", "promotion", None, Some(TextC), clock, "email", Some("k2"), None),
      NotificationEvent("u1", "update", None, Some(TextA), clock, "push", Some("k3"), None),
      NotificationEvent("u1", "update", Some(TextB), None, clock, "sms", Some("k4"), None),
      NotificationEvent("u1", "reminder", None, Some(TextC), clock, "email", Some(""), None) }

MarkDecide == \E event \in MarkEvents : Decide(event)
MarkConfigure == \E r \in {MarkRules1, MarkRules2} : ConfigureRules(r)
MarkTick == \E d \in {1, DefaultRules.cooldown_seconds} : Tick(d)

NextMark == MarkDecide \/ MarkConfigure \/ MarkTick

SpecMark == Init /\ [][NextMark]_vars

\* Call i carried a dedupe key, which may be the empty string, and was
\* answered neither in steps 1 and 2 nor as an exact duplicate.
PastDedupeAnyKey(i) ==
    /\ IsSome(hist[i].event.dedupe_key)
    /\ ReturnStep(hist[i].response) >= 4

PastDedupe(i) ==
    /\ has_dedupe_key(hist[i].event)
    /\ ReturnStep(hist[i].response) >= 4

JaccardFingerprints ==
    { token_fingerprint(text) : text \in {<<>>, TextBlank, TextA, TextA2, TextB, TextC} }
        \cup { <<"a">>, <<"b">>, <<"a", "|", "b">>, <<"b", "|", "a">>,
               <<"a", "|", "a">>, <<"a", "b">>, <<"|">>, <<"a", "|", "|", "b">> }

InitJaccard ==
    /\ clock = 0
    /\ rules = DefaultRules
    /\ events_by_user = [u \in Users |-> <<>>]
    /\ fingerprints_by_user = [u \in Users |-> <<>>]
    /\ exact_seen = <<>>
    /\ audit_by_user = [u \in Users |-> <<>>]
    /\ hist = <<>>
    /\ pre = [rules |-> DefaultRules,
              events_by_user |-> [u \in Users |-> <<>>],
              fingerprints_by_user |-> [u \in Users |-> <<>>],
              exact_seen |-> <<>>]
    /\ ticked = FALSE
    /\ calls = [t \in Threads |-> Idle]
    /\ args \in JaccardFingerprints \X JaccardFingerprints
    /\ result = None

\* One call jaccard_similarity(fp1, fp2).
JaccardSimilarity ==
    /\ result = None
    /\ result' = Some(jaccard_similarity(args[1], args[2]))
    /\ UNCHANGED <<audit_by_user, args, clock, rules, events_by_user, fingerprints_by_user,
                   exact_seen, hist, pre, ticked, calls>>

NextJaccard == JaccardSimilarity

SpecJaccard == InitJaccard /\ [][NextJaccard]_vars

\* The token set of a fingerprint, read off the positions of its separators:
\* the pieces between two neighbouring separators (or an end of the string).
TokenSet(fp) ==
    LET seps == {i \in 1..Len(fp) : fp[i] = "|"} \cup {0, Len(fp) + 1}
        neighbours == {p \in seps \X seps :
                          /\ p[1] < p[2]
                          /\ \A k \in seps : ~(p[1] < k /\ k < p[2])}
    IN  {SubSeq(fp, p[1] + 1, p[2] - 1) : p \in neighbours}

\* The reference: 0 when either fingerprint is empty, otherwise the size of
\* the intersection over the size of the union of the two token sets.
ReferenceSimilarity(fp1, fp2) ==
    IF fp1 = <<>> \/ fp2 = <<>> THEN <<0, 1>>
    ELSE <<Cardinality(TokenSet(fp1) \cap TokenSet(fp2)),
           Cardinality(TokenSet(fp1) \cup TokenSet(fp2))>>

\* Two fractions with positive denominators denote the same number.
SameNumber(x, y) == x[1] * y[2] = y[1] * x[2]

\* C17: for every pair of fingerprints jaccard_similarity equals the
\* reference (0 when either fingerprint is empty, both empty included, else
\* the intersection over the union of the token sets); the value lies in
\* [0, 1], does not depend on the order of the arguments, and is 1 for two
\* non-empty fingerprints with equal token sets.
C17_Reference ==
    result # None =>
        LET similarity == Val(result)
            fp1 == args[1]
            fp2 == args[2]
        IN  /\ similarity[2] > 0
            /\ SameNumber(similarity, ReferenceSimilarity(fp1, fp2))
            /\ 0 <= similarity[1] /\ similarity[1] <= similarity[2]
            /\ SameNumber(similarity, jaccard_similarity(fp2, fp1))
            /\ (fp1 = <<>> \/ fp2 = <<>>) => similarity[1] = 0
            /\ (fp1 # <<>> /\ fp2 # <<>> /\ TokenSet(fp1) = TokenSet(fp2))
                   => similarity[1] = similarity[2]

\* Two empty fingerprints were compared and the call returned 0.
C17_Witness ==
    /\ args = <<(<<>>), (<<>>)>>
    /\ result = Some(<<0, 1>>)

(***************************************************************************)
(* The decide endpoint, main.decide_notification: the advisory lookup runs *)
(* first, on a worker of the executor, and the caller waits for it at most *)
(* advisor.timeout_ms; then engine.decide runs, and a hint, if there is    *)
(* one, is appended to the reason of its response.                         *)
(***************************************************************************)

\* AIAdvisor.suggest(event), for either value of the advisor's field enabled.
suggest(enabled, event) ==
    IF ~enabled THEN None ELSE Some("ai_hint:" \o event.event_type)

\* How the wait fut.result(timeout=...) can end: suggest returned in time
\* (with what either setting of enabled makes it return), the wait timed
\* out, or the future carries an exception.
Futures(event) ==
    { [kind |-> "returned", value |-> suggest(enabled, event)] : enabled \in BOOLEAN }
        \cup { [kind |-> "timeout", value |-> None],
               [kind |-> "error", value |-> None] }

\* main._safe_ai_hint, given how the wait for the future ended.
safe_ai_hint(fut) ==
    IF fut.kind = "timeout" THEN Some("ai_unavailable_timeout_fallback_to_rules")
    ELSE IF fut.kind = "error" THEN Some("ai_unavailable_error_fallback_to_rules")
    ELSE fut.value

\* decide_notification with "decision.reason = ai_hint" at line 58: the hint
\* would replace the engine's reason.
with_ai_hint_replacing(decision, ai_hint) ==
    IF IsSome(ai_hint) /\ Val(ai_hint) # ""
    THEN [decision EXCEPT !.reason = Val(ai_hint)]
    ELSE decision

\* Lines 57 and 58 of decide_notification: "if ai_hint:" holds for a string
\* that is not empty.
with_ai_hint(decision, ai_hint) ==
    IF IsSome(ai_hint) /\ Val(ai_hint) # ""
    THEN [decision EXCEPT !.reason = @ \o ";" \o Val(ai_hint)]
    ELSE decision

\* One request POST /v1/notifications/decide whose lookup ended as fut.
decide_notification(event, fut) ==
    LET u == event.user_id
        ai_hint == safe_ai_hint(fut)
        o == decide(events_by_user[u], fingerprints_by_user[u], exact_seen,
                    rules, clock, event)
    IN  /\ Len(hist) < MaxCalls
        /\ events_by_user' = [events_by_user EXCEPT ![u] = o.events]
        /\ fingerprints_by_user' = [fingerprints_by_user EXCEPT ![u] = o.fingerprints]
        /\ exact_seen' = o.exact_seen
        /\ hist' = Append(hist, [event |-> event, now |-> clock,
                                 response |-> o.response, rules_at_return |-> rules])
        /\ pre' = [rules |-> rules,
                   events_by_user |-> events_by_user,
                   fingerprints_by_user |-> fingerprints_by_user,
                   exact_seen |-> exact_seen]
        /\ ticked' = FALSE
        /\ args' = <<event, fut>>
        /\ result' = Some(with_ai_hint(o.response, ai_hint))
        /\ UNCHANGED <<audit_by_user, clock, rules, calls>>

\* The requests: an event that is deferred when repeated, a keyed promotion
\* and an urgent event.
AdvisoryEvents ==
    { NotificationEvent("u1", "update", None, Some(TextA), clock, "push", None, None),
      NotificationEvent("u1", "promotion", None, Some(TextC), clock, "email",
                        Some("k1"), None),
      NotificationEvent("u1", "security_alert", None, Some(TextB), clock, "sms",
                        None, None) }

AdvisoryDecide == \E event \in AdvisoryEvents : \E fut \in Futures(event) : decide_notification(event, fut)
AdvisoryTick == Tick(DefaultRules.cooldown_seconds)

NextAdvisory == AdvisoryDecide \/ AdvisoryTick

SpecAdvisory == Init /\ [][NextAdvisory]_vars

\* The fixed annotations of a lookup that did not answer.
FallbackAnnotation(kind) ==
    IF kind = "timeout" THEN "ai_unavailable_timeout_fallback_to_rules"
    ELSE "ai_unavailable_error_fallback_to_rules"

\* C18: however the advisory lookup ends, the endpoint's response has the
\* decision, scheduled_for, risk_score and policy_version of engine.decide's
\* response and the store is as engine.decide leaves it; the reason is the
\* engine's reason, alone or followed by ';' and a suffix, and the suffix is
\* the fixed fallback string after a timeout and after an error.
C18_AdvisoryOnlyAnnotates ==
    result # None =>
        LET response == Val(result)
            fut == args[2]
            engine == LastUnder(pre.rules)
        IN  /\ response.decision = engine.response.decision
            /\ response.scheduled_for = engine.response.scheduled_for
            /\ response.risk_score = engine.response.risk_score
            /\ response.policy_version = engine.response.policy_version
            /\ events_by_user = [pre.events_by_user EXCEPT ![LastUser] = engine.events]
            /\ fingerprints_by_user =
                   [pre.fingerprints_by_user EXCEPT ![LastUser] = engine.fingerprints]
            /\ exact_seen = engine.exact_seen
            /\ IF fut.kind = "returned"
               THEN \/ response.reason = engine.response.reason
                    \/ /\ IsSome(fut.value)
                       /\ response.reason = engine.response.reason \o ";" \o Val(fut.value)
               ELSE response.reason =
                        engine.response.reason \o ";" \o FallbackAnnotation(fut.kind)

\* A request whose lookup timed out was answered LATER with a scheduled_for,
\* the engine's reason followed by the timeout annotation.
C18_Witness ==
    /\ result # None
    /\ args[2].kind = "timeout"
    /\ Val(result).decision = "Later"
    /\ Val(result).scheduled_for # None
    /\ Val(result).reason # Last.response.reason

(***************************************************************************)
(* Retention against the windows of the rules: set_rules stores any        *)
(* RuleConfig (models.py gives its integer fields no bounds), so the       *)
(* near-duplicate window and the cooldown may be longer than the six hours *)
(* fingerprints and the two days events are kept.                          *)
(***************************************************************************)
WideWindowRules ==
    RuleConfig("w1", 180, 15, 3, FingerprintRetentionSeconds + HourSeconds,
               {"security_alert"}, {"passive_tip"}, {"promotion"})

RetentionRules == {WideWindowRules, LongCooldownRules}

RetentionEvents ==
    { NotificationEvent("u1", "update", None, Some(TextA), clock, "push", None, None),
      NotificationEvent("u1", "update", None, Some(TextB), clock, "email", None, None),
      NotificationEvent("u1", "promotion", None, Some(TextC), clock, "sms", None, None) }

RetentionDecide == \E event \in RetentionEvents : Decide(event)
RetentionConfigure == \E r \in RetentionRules : ConfigureRules(r)
RetentionTick ==
    \E d \in {HourSeconds, FingerprintRetentionSeconds + 1, EventRetentionSeconds + 1} : Tick(d)

NextRetention == RetentionDecide \/ RetentionConfigure \/ RetentionTick

SpecRetention == Init /\ [][NextRetention]_vars

\* The entries the last call's first read of the fingerprint queue drops, as
\* positions in the queue the call found.
LastTrimmedFingerprints ==
    LET q == pre.fingerprints_by_user[LastUser]
    IN  1..(Len(q) - Len(trim_fingerprints(q, Last.now)))

\* The same for the event queue.
LastTrimmedEvents ==
    LET q == pre.events_by_user[LastUser]
    IN  1..(Len(q) - Len(trim_events(q, Last.now)))

\* The last call evaluated the near-duplicate rule on a non-empty fingerprint.
LastQueriedFingerprints == LastReachedStep5 /\ LastFingerprint # <<>>

\* The last call read the events of the last day, of the last hour, of the
\* cooldown.
LastQueriedDay ==
    /\ hist # <<>>
    /\ is_promotional(Last.event, pre.rules)
    /\ ReturnStep(Last.response) >= 4

LastQueriedHour ==
    /\ hist # <<>>
    /\ ~is_urgent(Last.event, pre.rules)
    /\ ReturnStep(Last.response) >= 6

LastQueriedCooldown ==
    /\ hist # <<>>
    /\ ~is_urgent(Last.event, pre.rules)
    /\ ReturnStep(Last.response) >= 7

\* C19: under every RuleConfig set_rules accepts, when a call evaluates a
\* rule, no fingerprint seen within near_duplicate_window_seconds and no
\* event stamped within cooldown_seconds, the last hour or the last day has
\* been dropped from its queue by the trimming.
C19_HorizonsCover ==
    hist # <<>> =>
        LET fp_q == pre.fingerprints_by_user[LastUser]
            ev_q == pre.events_by_user[LastUser]
            r == pre.rules
        IN  /\ LastQueriedFingerprints =>
                   \A i \in LastTrimmedFingerprints :
                       fp_q[i].seen_at < Last.now - r.near_duplicate_window_seconds
            /\ LastQueriedDay =>
                   \A i \in LastTrimmedEvents : ev_q[i].timestamp < Last.now - DaySeconds
            /\ LastQueriedHour =>
                   \A i \in LastTrimmedEvents : ev_q[i].timestamp < Last.now - HourSeconds
            /\ LastQueriedCooldown =>
                   \A i \in LastTrimmedEvents :
                       ev_q[i].timestamp < Last.now - r.cooldown_seconds

(***************************************************************************)
(* The event queue on its own: add_event and recent_events called on the   *)
(* store directly, with events whose timestamps are the time of the call,  *)
(* an hour before it, or more than two days before it.  hist records the   *)
(* add_event calls (event and time of the call).                           *)
(***************************************************************************)
RecentWindows == {HourSeconds, EventRetentionSeconds}

RecentTimestamps == {clock, clock - HourSeconds, clock - (EventRetentionSeconds + HourSeconds)}

RecentEvents ==
    { NotificationEvent("u1", "update", None, Some(TextA), ts, "push", None, None) :
          ts \in RecentTimestamps }
        \cup { NotificationEvent("u2", "update", None, Some(TextA), clock, "push", None, None) }

\* One call store.add_event(event).
StoreAddEvent(event) ==
    LET u == event.user_id
    IN  /\ Len(hist) < MaxCalls
        /\ events_by_user' = [events_by_user EXCEPT ![u] = add_event(@, event, clock)]
        /\ hist' = Append(hist, [event |-> event, now |-> clock])
        /\ ticked' = FALSE
        /\ UNCHANGED <<audit_by_user, args, result, clock, rules, fingerprints_by_user, exact_seen,
                       pre, calls>>

\* One call store.recent_events(user_id, within_seconds): the queue is left
\* trimmed and the list is returned.  args keeps, after the two arguments,
\* the time of the call and the number of add_event calls made before it.
StoreRecentEvents(user_id, within_seconds) ==
    /\ events_by_user' =
           [events_by_user EXCEPT ![user_id] = trim_events(@, clock)]
    /\ args' = <<user_id, within_seconds, clock, Len(hist)>>
    /\ result' = Some(recent_events(events_by_user[user_id], within_seconds, clock))
    /\ UNCHANGED <<audit_by_user, clock, rules, fingerprints_by_user, exact_seen, hist, pre,
                   ticked, calls>>

RecentAdd == \E event \in RecentEvents : StoreAddEvent(event)
RecentQuery == \E u \in Users : \E w \in RecentWindows : StoreRecentEvents(u, w)
RecentTick == Tick(EventRetentionSeconds)

NextRecent == RecentAdd \/ RecentQuery \/ RecentTick

SpecRecent == Init /\ [][NextRecent]_vars

\* How many times the event ev occurs in the list.
Occurrences(list, ev) == Cardinality({i \in 1..Len(list) : list[i] = ev})

\* The events added before the last recent_events call, in the order of the
\* add_event calls.
Added == [i \in 1..args[4] |-> hist[i].event]

\* The list the last recent_events call returned holds exactly the events
\* added for its user whose timestamp is not older than the window.
ReturnedExactly ==
    result # None =>
        LET returned == Val(result)
            user_id == args[1]
            cutoff == args[3] - args[2]
        IN  \A ev \in Range(Added) \cup Range(returned) :
                Occurrences(returned, ev) =
                    IF ev.user_id = user_id /\ ev.timestamp >= cutoff
                    THEN Occurrences(Added, ev)
                    ELSE 0

\* The list the last recent_events call returned is ordered by timestamp.
ReturnedOldestFirst ==
    result # None =>
        \A i, j \in 1..Len(Val(result)) :
            i < j => Val(result)[i].timestamp <= Val(result)[j].timestamp

\* C20: for every user, every window of at most two days and every sequence
\* of add_event calls, in any order of timestamps, recent_events returns
\* exactly the events added for the user with timestamp >= now - W, and
\* returns them oldest first.
C20_RecentEvents == ReturnedExactly /\ ReturnedOldestFirst

(***************************************************************************)
(* The order of the rules.  One thread makes the calls, one after the      *)
(* other, each store access a step of its own, so that the access at which *)
(* a call returns can be told.  The events are chosen to meet the          *)
(* conditions of several rules at once: a promotion repeated with the same *)
(* key, text and channel, already expired at its second call, under rules  *)
(* with limits of one that may also suppress promotions.                   *)
(***************************************************************************)
OrderRules ==
    RuleConfig("o1", 180, 1, 1, 300, {"security_alert"}, {"passive_tip"}, {"promotion"})

OrderRulesSuppressing ==
    RuleConfig("o2", 180, 1, 1, 300, {"security_alert"}, {"promotion"}, {"promotion"})

OrderRulesLoose ==
    RuleConfig("o3", 180, 15, 3, 300, {"security_alert"}, {"passive_tip"}, {"promotion"})

OrderRuleConfigs == {OrderRules, OrderRulesSuppressing, OrderRulesLoose}

OrderEvents ==
    { NotificationEvent("u1", "promotion", None, Some(TextA), clock, "push", Some("k1"), Some(0)),
      NotificationEvent("u1", "promotion", None, Some(TextA), clock, "push", Some("k1"), None),
      NotificationEvent("u1", "promotion", None, Some(TextA), clock, "push", None, None),
      NotificationEvent("u1", "update", None, Some(TextA), clock, "push", None, None),
      NotificationEvent("u1", "update", None, Some(TextBlank), clock, "push", None, None),
      NotificationEvent("u1", "security_alert", None, Some(TextA), clock, "push", Some("k1"), None) }

OrderBegin == Busy = {} /\ \E event \in OrderEvents : Begin("t1", event)
OrderStep == Step("t1")
OrderSetRules == Busy = {} /\ \E r \in OrderRuleConfigs : r # rules /\ SetRules(r)
OrderTick == Busy = {} /\ Tick(1)

NextOrder == OrderBegin \/ OrderStep \/ OrderSetRules \/ OrderTick

SpecOrder == Init /\ [][NextOrder]_vars

\* The condition of rule k (1 expiry ... 7 channel cooldown, 8 pass) holds
\* for the last call on the store as the call found it.
RuleFires(k) ==
    LET event == Last.event
        r == pre.rules
        now == Last.now
        ev_q == pre.events_by_user[LastUser]
        fp_q == pre.fingerprints_by_user[LastUser]
    IN  CASE k = 1 -> is_expired(event, now)
          [] k = 2 -> is_suppressed(event, r)
          [] k = 3 -> /\ has_dedupe_key(event)
                      /\ exact_seen_within(pre.exact_seen, LastUser, Val(event.dedupe_key),
                                           r.cooldown_seconds, now)
          [] k = 4 -> /\ is_promotional(event, r)
                      /\ promo_count(recent_events(ev_q, DaySeconds, now), r)
                             >= r.promotional_cap_per_day
          [] k = 5 -> /\ ~is_urgent(event, r)
                      /\ LastFingerprint # <<>>
                      /\ near_duplicate_found(LastFingerprint,
                             recent_fingerprints(fp_q, r.near_duplicate_window_seconds, now),
                             event)
          [] k = 6 -> /\ ~is_urgent(event, r)
                      /\ over_hourly_limit(recent_events(ev_q, HourSeconds, now), r)
          [] k = 7 -> /\ ~is_urgent(event, r)
                      /\ channel_in_cooldown(recent_events(ev_q, r.cooldown_seconds, now), event)
          [] k = 8 -> TRUE

\* The earliest rule whose condition holds for the last call.
FirstRuleFiring == CHOOSE k \in 1..8 : RuleFires(k) /\ \A j \in 1..(k - 1) : ~RuleFires(j)

\* The store access at which a call answering with the reason returns
\* ("idle": before any store access, in steps 1 and 2).
AnsweringAccess(reason) ==
    CASE reason = "event_expired" -> "idle"
      [] reason = "event_type_suppressed" -> "idle"
      [] reason = "exact_duplicate" -> "exact_seen_within"
      [] reason = "promotional_daily_cap_reached" -> "recent_events_day"
      [] reason = "near_duplicate" -> "recent_fingerprints"
      [] reason = "hourly_rate_limit_exceeded" -> "recent_events_hour"
      [] reason = "channel_cooldown_active" -> "recent_events_cooldown"
      [] reason = "passed_all_checks" -> "add_event"

\* The last call, now returned, answered with the earliest rule that fired
\* and wrote nothing a later step writes.
AnsweredByFirstRule ==
    (Busy = {} /\ hist # <<>>) =>
        LET k == ReturnStep(Last.response)
        IN  /\ k = FirstRuleFiring
            /\ exact_seen # pre.exact_seen => k >= 4
            /\ fingerprints_by_user # pre.fingerprints_by_user => k >= 6
            /\ events_by_user # pre.events_by_user => k = 8

\* A call returns in the very store access of the step that answers it.
ReturnsAtAnsweringAccess ==
    Len(hist') > Len(hist) =>
        calls["t1"].pc = AnsweringAccess(hist'[Len(hist')].response.reason)

\* C21: decide evaluates the rules in the order expiry, suppression, exact
\* duplicate, promotional cap, near-duplicate, hourly limit, channel
\* cooldown, pass; an event that meets the conditions of several rules is
\* answered with the reason of the earliest, and the call makes no store
\* access of a later step.
C21_FixedOrder == []AnsweredByFirstRule /\ [][ReturnsAtAnsweringAccess]_vars

\* A call met the conditions of expiry, exact duplicate, promotional cap,
\* near-duplicate, hourly limit and channel cooldown at once and was
\* answered event_expired.
C21_Witness ==
    /\ Busy = {} /\ hist # <<>>
    /\ \A k \in {1, 3, 4, 5, 6, 7} : RuleFires(k)
    /\ Last.response.reason = "event_expired"

(***************************************************************************)
(* Deferred events and their fingerprints: a reminder takes the hourly     *)
(* slot or the channel, updates of similar texts follow, at once, a whole  *)
(* near-duplicate window later, or a second after it, under rules with an  *)
(* hourly limit of one or of fifteen.                                      *)
(***************************************************************************)
DeferEvents ==
    { NotificationEvent("u1", "reminder", None, Some(TextA), clock, "push", None, None),
      NotificationEvent("u1", "update", None, Some(TextA), clock, "push", None, None),
      NotificationEvent("u1", "update", Some(TextB), None, clock, "email", None, None),
      NotificationEvent("u1", "update", None, Some(TextC), clock, "push", None, None),
      NotificationEvent("u2", "update", None, Some(TextA), clock, "push", None, None) }

DeferDecide == \E event \in DeferEvents : Decide(event)
DeferConfigure == \E r \in {OrderRules, OrderRulesLoose} : ConfigureRules(r)
DeferTick ==
    \E d \in {OrderRules.near_duplicate_window_seconds,
              OrderRules.near_duplicate_window_seconds + 1} : Tick(d)

NextDefer == DeferDecide \/ DeferConfigure \/ DeferTick

SpecDefer == Init /\ [][NextDefer]_vars

\* Call i was deferred by the hourly rate limit or by the channel cooldown.
DeferredByLimit(i) ==
    /\ hist[i].response.decision = "Later"
    /\ hist[i].response.reason \in {"hourly_rate_limit_exceeded", "channel_cooldown_active"}

\* Call j is for an event of the user and type of call i, of similarity at
\* least 0.82 to it, decided within the near-duplicate window after it.
SimilarWithinWindow(i, j) ==
    /\ i < j
    /\ hist[j].event.user_id = hist[i].event.user_id
    /\ hist[j].event.event_type = hist[i].event.event_type
    /\ AtLeastPct(jaccard_similarity(token_fingerprint(combined_text(hist[j].event)),
                                     token_fingerprint(combined_text(hist[i].event))),
                  NearDuplicateThresholdPct)
    /\ hist[j].now - hist[i].now <= rules.near_duplicate_window_seconds

\* C22: a non-urgent event deferred by the hourly limit or the channel
\* cooldown has left its fingerprint: a later event of the same user and
\* type, of similarity >= 0.82 to it, decided within the near-duplicate
\* window and passing steps 1-4, is answered LATER/near_duplicate.
C22_DeferredLeavesFingerprint ==
    \A i, j \in Calls :
        ( /\ DeferredByLimit(i)
          /\ SimilarWithinWindow(i, j)
          /\ ~is_urgent(hist[j].event, rules)
          /\ ReturnStep(hist[j].response) >= 5 )
        => /\ hist[j].response.decision = "Later"
           /\ hist[j].response.reason = "near_duplicate"

\* An update deferred by the channel cooldown made a similar update, decided
\* a whole window later, a near duplicate, and no call decided NOW had a
\* similar text of that type.
C22_Witness ==
    \E i, j \in Calls :
        /\ hist[i].response.reason = "channel_cooldown_active"
        /\ SimilarWithinWindow(i, j)
        /\ hist[j].now - hist[i].now = rules.near_duplicate_window_seconds
        /\ hist[j].response.reason = "near_duplicate"
        /\ \A k \in Calls : DecidedNow(k) => ~SimilarWithinWindow(k, j)

(***************************************************************************)
(* Trimming of a queue whose events were added out of chronological order, *)
(* seen step by step in the calls of SpecRecent.                           *)
(***************************************************************************)
\* The event is older than the two days events are kept.
Stale(event) == event.timestamp < clock - EventRetentionSeconds

\* The queue of user u that the trimming of this step works on: the queue
\* with the event appended, if the step is an add_event for u.
QueueToTrim(u) ==
    IF Len(hist') > Len(hist) /\ hist'[Len(hist')].event.user_id = u
    THEN Append(events_by_user[u], hist'[Len(hist')].event)
    ELSE events_by_user[u]

\* The positions in QueueToTrim(u) of the entries this step evicts.
Evicted(u) == 1..(Len(QueueToTrim(u)) - Len(events_by_user'[u]))

\* This step trims the queue of user u.
Trims(u) ==
    \/ Len(hist') > Len(hist) /\ hist'[Len(hist')].event.user_id = u
    \/ result' # None /\ args' # args /\ args'[1] = u
    \/ Evicted(u) # {}

\* An entry older than the retention window stays in the queue of u behind
\* a newer entry after this step's trimming.
StaleStaysBehindNewer(u) ==
    \E i, j \in 1..Len(events_by_user'[u]) :
        /\ i < j
        /\ events_by_user'[u][j].timestamp < events_by_user'[u][i].timestamp
        /\ Stale(events_by_user'[u][j])

AuditRetentionSeconds == 7 * DaySeconds

\* models.AuditRecord
AuditRecord(event, decision, created_at) ==
    [event |-> event, decision |-> decision, created_at |-> created_at]

\* InMemoryStore._trim_audit
RECURSIVE trim_audit(_, _)
trim_audit(q, now) ==
    IF q # <<>> /\ Head(q).created_at < now - AuditRetentionSeconds
    THEN trim_audit(Tail(q), now)
    ELSE q

\* InMemoryStore.add_audit: the queue afterwards.
add_audit(q, record, now) == trim_audit(Append(q, record), now)

\* The audit collaborator records the first decision it is handed for a
\* user, before the clock moves on and while further calls are to come.
StoreAddAudit ==
    /\ hist # <<>>
    /\ Len(hist) < MaxCalls
    /\ ~ticked
    /\ audit_by_user[LastUser] = <<>>
    /\ audit_by_user' =
           [audit_by_user EXCEPT ![LastUser] =
                add_audit(@, AuditRecord(Last.event, Last.response, clock), clock)]
    /\ UNCHANGED <<args, result, clock, rules, events_by_user, fingerprints_by_user,
                   exact_seen, hist, pre, ticked, calls>>

FrameEvents ==
    { NotificationEvent("u1", "update", None, Some(TextA), clock, "push", None, None),
      NotificationEvent("u1", "update", None, Some(TextC), clock, "email", Some("k1"), Some(0)),
      NotificationEvent("u1", "promotion", Some(TextB), None, clock, "push", Some("k1"), None),
      NotificationEvent("u1", "security_alert", None, Some(TextA),
                        clock - (EventRetentionSeconds + HourSeconds), "push", None, None),
      NotificationEvent("u2", "update", None, Some(TextA), clock, "push", Some("k1"), None) }

FrameDecide == \E event \in FrameEvents : Decide(event)
FrameTick == Tick(EventRetentionSeconds + HourSeconds)

NextFrame == FrameDecide \/ FrameTick \/ StoreAddAudit

SpecFrame == Init /\ [][NextFrame]_vars

\* The calls decided NOW for the event ev.
NowCallsFor(ev) == {i \in Calls : hist[i].event = ev /\ DecidedNow(i)}

\* The event queue of the last call's user is as that call must leave it: with
\* the event appended once (and the queue trimmed) after NOW, without an
\* append after LATER and NEVER.
LastAppendedIffNow ==
    hist # <<>> =>
        LET q_pre == pre.events_by_user[LastUser]
            q == events_by_user[LastUser]
        IN  IF Last.response.decision = "Now"
            THEN q = trim_events(Append(q_pre, Last.event), Last.now)
            ELSE q \in {q_pre, trim_events(q_pre, Last.now)}

\* Every entry of an event queue is the event of a call decided NOW, held no
\* more often than such calls were made.
OnlyNowEventsRecorded ==
    \A u \in Users : \A k \in 1..Len(events_by_user[u]) :
        LET ev == events_by_user[u][k]
        IN  /\ ev.user_id = u
            /\ Occurrences(events_by_user[u], ev) <= Cardinality(NowCallsFor(ev))

\* A step in which a decide call returns leaves the audit records alone.
DecideLeavesAudit == Len(hist') > Len(hist) => audit_by_user' = audit_by_user

\* C24: decide appends to the user's event history exactly when it returns
\* NOW, and then the decided event, once; a LATER or NEVER decision appends
\* nothing, so only events decided NOW are in the histories later calls
\* count; decide appends no audit record.
C24_AppendsIffNow ==
    /\ [](LastAppendedIffNow /\ OnlyNowEventsRecorded)
    /\ [][DecideLeavesAudit]_vars

\* After a call decided NOW, a call deferred and a third decided NOW, all of
\* one user, the user's history holds the two events decided NOW, and audit
\* records have been written by the collaborator.
C24_Witness ==
    /\ Len(hist) = 3
    /\ \A i \in Calls : hist[i].event.user_id = "u1"
    /\ DecidedNow(1) /\ hist[2].response.decision = "Later" /\ DecidedNow(3)
    /\ events_by_user["u1"] = <<hist[1].event, hist[3].event>>
    /\ hist[2].event \notin Range(events_by_user["u1"])
    /\ audit_by_user["u1"] # <<>>

\* The last call was answered NEVER in one of the steps 1 to 3.
LastRejectedEarly ==
    /\ hist # <<>>
    /\ Last.response.decision = "Never"
    /\ Last.response.reason \in {"event_expired", "event_type_suppressed", "exact_duplicate"}

\* C25: a decide call answered NEVER with event_expired, event_type_suppressed
\* or exact_duplicate leaves the store as it found it: no event, no
\* fingerprint, no dedupe entry is added or updated, so an expired or
\* suppressed event does not mark its key and a rejected duplicate does not
\* refresh the last-seen time of its key.
C25_RejectedLeavesStore ==
    LastRejectedEarly =>
        /\ events_by_user = pre.events_by_user
        /\ fingerprints_by_user = pre.fingerprints_by_user
        /\ exact_seen = pre.exact_seen
        /\ audit_by_user = [u \in Users |-> <<>>]

\* A duplicate was rejected later than its key was recorded, and the key's
\* last-seen time is still the time of the call that recorded it.
C25_Witness ==
    /\ LastRejectedEarly
    /\ Last.response.reason = "exact_duplicate"
    /\ exact_seen[<<LastUser, Val(Last.event.dedupe_key)>>] < Last.now
    /\ \E i \in Calls :
           /\ hist[i].now = exact_seen[<<LastUser, Val(Last.event.dedupe_key)>>]
           /\ hist[i].event.dedupe_key = Last.event.dedupe_key
           /\ ReturnStep(hist[i].response) >= 4

\* One call run on what the calls before it, run alone, left and got.
CallAlone(alone, call) ==
    LET o == decide(alone.events, alone.fingerprints, alone.exact_seen,
                    call.rules_at_return, call.now, call.event)
    IN  [events |-> o.events, fingerprints |-> o.fingerprints,
         exact_seen |-> o.exact_seen,
         responses |-> Append(alone.responses, o.response)]

\* The calls of hist[1..n] made for user u, run alone in the same order, at
\* the same times and under the same rules, on a store that starts empty:
\* the queues and dedupe map they leave and the responses they get.
RECURSIVE RunAlone(_, _)
RunAlone(u, n) ==
    IF n = 0
    THEN [events |-> <<>>, fingerprints |-> <<>>, exact_seen |-> <<>>, responses |-> <<>>]
    ELSE IF hist[n].event.user_id # u THEN RunAlone(u, n - 1)
    ELSE CallAlone(RunAlone(u, n - 1), hist[n])

\* The responses the calls for user u got, in the order of the calls.
ResponsesOf(u) ==
    LET own == SelectSeq(hist, LAMBDA call : call.event.user_id = u)
    IN  [i \in 1..Len(own) |-> own[i].response]

\* The entries of the dedupe map seen that belong to user u.
SeenOf(seen, u) == {<<p, seen[p]>> : p \in {q \in DOMAIN seen : q[1] = u}}

\* The last call left the state of every user but its own as it was.
LastLeftOtherUsers ==
    hist # <<>> =>
        \A u \in Users \ {LastUser} :
            /\ events_by_user[u] = pre.events_by_user[u]
            /\ fingerprints_by_user[u] = pre.fingerprints_by_user[u]
            /\ SeenOf(exact_seen, u) = SeenOf(pre.exact_seen, u)

\* C26: a decide call for user u changes no event, fingerprint or dedupe
\* state of another user, and the calls of the users, interleaved in any
\* order, get the responses and leave the state that each user's calls get
\* and leave when run alone.
C26_UserIsolation ==
    /\ LastLeftOtherUsers
    /\ \A u \in Users :
           LET alone == RunAlone(u, Len(hist))
           IN  /\ ResponsesOf(u) = alone.responses
               /\ events_by_user[u] = alone.events
               /\ fingerprints_by_user[u] = alone.fingerprints
               /\ SeenOf(exact_seen, u) = SeenOf(alone.exact_seen, u)

\* Two users sent events with the same dedupe key, text and channel, one
\* between two calls of the other; the second user's event was decided NOW
\* and the first user's repeated key was rejected as a duplicate.
C26_Witness ==
    /\ Len(hist) = 3
    /\ hist[1].event.user_id = "u1" /\ hist[2].event.user_id = "u2"
    /\ hist[3].event.user_id = "u1"
    /\ hist[1].event.dedupe_key = Some("k1") /\ hist[2].event.dedupe_key = Some("k1")
    /\ hist[3].event.dedupe_key = Some("k1")
    /\ DecidedNow(1) /\ DecidedNow(2)
    /\ hist[3].response.reason = "exact_duplicate"

============================================================================
